---- MODULE Spec2Model ----
(***************************************************************************)
(* A model of afterburner's patch engine.                                  *)
(*                                                                         *)
(*  - the tree realization, src/src/utils/patches/modelExtensions.ts:      *)
(*    writeModelExtensions parses the input, runs seven patches in a fixed *)
(*    order on one mutable syntax tree and prints the tree;                *)
(*  - the textual realization, src/src/utils/patches/welcomeMessage.ts:    *)
(*    writeModelExtensions collects range edits against the original text  *)
(*    and applies them in descending start offset.                         *)
(*                                                                         *)
(* A syntax tree is a sequence of top-level statements; every node is a    *)
(* record with the ESTree field names the code reads.  Text produced by    *)
(* astring's generate(node), which the finders search with includes(), is  *)
(* kept as the set of the fragments the finders look for.                  *)
(***************************************************************************)
EXTENDS Integers, Sequences, FiniteSets, TLC

\* JavaScript null / undefined for a name; `${null}` interpolates as "null".
NULL == "null"

\* ------------------------------------------------------------------ bounds
\* Runs of the pipeline in one behaviour: run 2 reads the output of run 1.
MaxRuns == 2
\* Calls of the Patch-D shape f(X).optional() on the collection in the schema.
MaxSchemaUses == 3

\* ------------------------------------------------------------ tree nodes
Ident(n) == [type |-> "Identifier", name |-> n]

Lit(v) == [type |-> "Literal", value |-> v]

Member(obj, p) == [type |-> "MemberExpression", object |-> obj, property |-> p]

Call(callee, args) == [type |-> "CallExpression", callee |-> callee, arguments |-> args]

\* f(args).optional()
OptionalCall(f, args) == Call(Member(Call(Ident(f), args), "optional"), <<>>)

\* An array element: a string literal, an empty slot (null in ESTree), or an
\* object literal whose properties all hold the string v, keyed by keys.
Elem(v) == [type |-> "Literal", value |-> v, keys |-> <<>>]

Hole == [type |-> "Hole", value |-> "", keys |-> <<>>]

ObjElem(keys, v) == [type |-> "ObjectExpression", value |-> v, keys |-> keys]

ArrayExpr(els) == [type |-> "ArrayExpression", elements |-> els]

ObjectExpr(props) == [type |-> "ObjectExpression", properties |-> props]

Prop(k, v) == [type |-> "Property", key |-> k, value |-> v]

Decl(id, init) == [type |-> "VariableDeclarator", id |-> id, init |-> init]

VarDecl(decls) == [type |-> "VariableDeclaration", declarations |-> decls]

\* A function declaration; its body is kept as the fragments of its printed
\* text that the finders search for, and the identifiers it uses freely.
FuncDecl(name, params, text, free) ==
    [type |-> "FunctionDeclaration", id |-> Ident(name), params |-> params,
     body |-> [type |-> "BlockStatement", text |-> text, free |-> free]]

Block(stmts) == [type |-> "BlockStatement", body |-> stmts]

Arrow(params, body) == [type |-> "ArrowFunctionExpression", params |-> params, body |-> body]

ExprStmt(e) == [type |-> "ExpressionStatement", expression |-> e]

\* A statement astring has no printer for (generate throws on it).
Unprintable == [type |-> "Unprintable"]

SeqToSet(s) == {s[i] : i \in 1..Len(s)}

\* The least element of a set of indices, 0 when the set is empty.
First(S) == IF S = {} THEN 0 ELSE CHOOSE i \in S : \A j \in S : i <= j

\* ------------------------------------------------- sentinel literal values
KnownModels == {"claude-sonnet-4.5", "gpt-5"}

\* value.includes('claude')
IncludesClaude(v) == v \in {"claude-sonnet-4.5", "claude-opus-4"}

\* text.includes('claude-sonnet')
IncludesClaudeSonnet(v) == v \in {"claude-sonnet-4.5"}

\* generate(node).includes(frag) for a function declaration
TextIncludes(node, frag) == frag \in node.body.text

\* array.splice(i, 0, x) with i counted from 0: x becomes element i + 1
InsertAfter(s, i, x) == SubSeq(s, 1, i) \o <<x>> \o SubSeq(s, i + 1, Len(s))

\* --------------------------------------------- Patch 1: C2 extension code
\* The test of one declarator in findC2Reference.
IsC2Declarator(decl) ==
    /\ decl.init.type = "ArrayExpression"
    /\ Len(decl.init.elements) >= 2
    /\ \E k \in 1..Len(decl.init.elements) :
          /\ decl.init.elements[k].type = "Literal"
          /\ decl.init.elements[k].value \in KnownModels
    /\ decl.id.type = "Identifier"

\* c2VarIndex is the 1-based index of the statement, 0 when nothing is found.
FindC2Reference(body) ==
    LET hit(i) == /\ body[i].type = "VariableDeclaration"
                  /\ \E d \in 1..Len(body[i].declarations) :
                        IsC2Declarator(body[i].declarations[d])
        i == First({j \in 1..Len(body) : hit(j)})
        d == First({e \in 1..Len(body[i].declarations) :
                        IsC2Declarator(body[i].declarations[e])})
    IN  IF i = 0
        THEN [c2VarName |-> NULL, c2VarIndex |-> 0]
        ELSE [c2VarName |-> body[i].declarations[d].id.name, c2VarIndex |-> i]

\* The try statement parsed from injectionCode: it reads and appends to the
\* collection under the interpolated name.
InjectionTry(c2) == [type |-> "TryStatement", collection |-> c2]

\* applyC2ExtensionPatch with the splice made at c2VarIndex instead of
\* c2VarIndex + 1: the block lands before the declaration.
ApplyC2ExtensionPatchBeforeDeclaration(body) ==
    LET c2Ref == FindC2Reference(body)
    IN  IF c2Ref.c2VarIndex = 0
        THEN [ok |-> FALSE, ast |-> body, c2 |-> NULL]
        ELSE [ok |-> TRUE,
              ast |-> InsertAfter(body, c2Ref.c2VarIndex - 1, InjectionTry(c2Ref.c2VarName)),
              c2 |-> c2Ref.c2VarName]

ApplyC2ExtensionPatch(body) ==
    LET c2Ref == FindC2Reference(body)
    IN  IF c2Ref.c2VarIndex = 0
        THEN [ok |-> FALSE, ast |-> body, c2 |-> NULL]
        ELSE [ok |-> TRUE,
              ast |-> InsertAfter(body, c2Ref.c2VarIndex, InjectionTry(c2Ref.c2VarName)),
              c2 |-> c2Ref.c2VarName]

\* ------------------------------------- Patch 2: Fxe function modification
\* The name search writeModelExtensions makes before the patch: it does not
\* look for "disabled".
IsFxeCandidate(node) ==
    /\ node.type = "FunctionDeclaration"
    /\ Len(node.params) = 2
    /\ TextIncludes(node, ".find")
    /\ TextIncludes(node, ".id")
    /\ TextIncludes(node, ".policy")

DeriveFxeFuncName(body) ==
    LET i == First({j \in 1..Len(body) : IsFxeCandidate(body[j])})
    IN  IF i = 0 THEN NULL ELSE body[i].id.name

\* The finder inside applyFxeFunctionPatch.
IsFxeFunction(node) ==
    /\ node.type = "FunctionDeclaration"
    /\ Len(node.params) = 2
    /\ TextIncludes(node, ".find") /\ TextIncludes(node, ".id")
    /\ TextIncludes(node, ".policy")
    /\ TextIncludes(node, "\"disabled\"")

FindFxeFunction(body) == First({j \in 1..Len(body) : IsFxeFunction(body[j])})

\* A replacement function that would not carry the "disabled" literal.
NewFxeFunctionWithoutDisabled(name, oldParams) ==
    FuncDecl(name, oldParams,
             {".find", ".id", ".policy", ".capabilities", ".type", ".state",
              "\"embeddings\""},
             {"t", "e"})

\* The function parsed from newFunctionCode and renamed, left with the
\* parameters (t, e) of the template.
NewFxeFunctionWithTemplateParams(name, oldParams) ==
    FuncDecl(name, <<Ident("t"), Ident("e")>>,
             {".find", ".id", ".policy", "\"disabled\"", ".capabilities",
              ".type", ".state", "\"embeddings\""},
             {"t", "e"})

\* The function parsed from newFunctionCode, renamed, with the old parameter
\* nodes; its body reads t and e.
NewFxeFunction(name, oldParams) ==
    FuncDecl(name, oldParams,
             {".find", ".id", ".policy", "\"disabled\"", ".capabilities",
              ".type", ".state", "\"embeddings\""},
             {"t", "e"})

ApplyFxeFunctionPatch(body) ==
    LET i == FindFxeFunction(body)
    IN  IF i = 0
        THEN [ok |-> FALSE, ast |-> body, index |-> 0]
        ELSE [ok |-> TRUE,
              ast |-> [body EXCEPT ![i] = NewFxeFunction(body[i].id.name, body[i].params)],
              index |-> i]

\* ------------------------------------- Patch 3: RWe function modification
IsRWeFunction(node, c2VarName) ==
    /\ node.type = "FunctionDeclaration"
    /\ Len(node.params) = 1
    /\ TextIncludes(node, c2VarName \o ".find")
    /\ TextIncludes(node, "throw") /\ TextIncludes(node, "Error")
    /\ TextIncludes(node, "supported model")

FindRWeReference(body, c2VarName) ==
    First({j \in 1..Len(body) : IsRWeFunction(body[j], c2VarName)})

NewRWeFunction(rweFuncName, c2VarName, fxeFuncName, oldParams) ==
    FuncDecl(rweFuncName, oldParams,
             {c2VarName \o ".find", ".find", ".id", "throw", "Error",
              "supported model", "Array.isArray"},
             {c2VarName, fxeFuncName, "t", "Array", "Error"})

\* applyRWeFunctionPatch as it would be without its test of fxeFuncName.
ApplyRWeFunctionPatchUnguarded(body, fxeFuncName) ==
    LET c2Ref == FindC2Reference(body)
        i == FindRWeReference(body, c2Ref.c2VarName)
    IN  IF c2Ref.c2VarIndex = 0
        THEN [ok |-> FALSE, ast |-> body, searched |-> FALSE, c2 |-> NULL]
        ELSE IF i = 0
        THEN [ok |-> FALSE, ast |-> body, searched |-> TRUE, c2 |-> c2Ref.c2VarName]
        ELSE [ok |-> TRUE,
              ast |-> [body EXCEPT ![i] = NewRWeFunction(body[i].id.name,
                                        c2Ref.c2VarName, fxeFuncName, body[i].params)],
              searched |-> TRUE, c2 |-> c2Ref.c2VarName]

\* searched: findRWeReference was called; c2: the collection name used.
ApplyRWeFunctionPatch(body, fxeFuncName) ==
    LET c2Ref == FindC2Reference(body)
        i == FindRWeReference(body, c2Ref.c2VarName)
    IN  IF fxeFuncName = NULL
        THEN [ok |-> FALSE, ast |-> body, searched |-> FALSE, c2 |-> NULL]
        ELSE IF c2Ref.c2VarIndex = 0
        THEN [ok |-> FALSE, ast |-> body, searched |-> FALSE, c2 |-> NULL]
        ELSE IF i = 0
        THEN [ok |-> FALSE, ast |-> body, searched |-> TRUE, c2 |-> c2Ref.c2VarName]
        ELSE [ok |-> TRUE,
              ast |-> [body EXCEPT ![i] = NewRWeFunction(body[i].id.name,
                                        c2Ref.c2VarName, fxeFuncName, body[i].params)],
              searched |-> TRUE, c2 |-> c2Ref.c2VarName]

\* --------------------------------------------- Patch 4: schema changes
\* The callback of elements.some(...) in writeModelExtensions' own search for
\* the collection name: its second disjunct reads el.value of any el that the
\* first disjunct rejected, an empty slot (null) included.
CanonicalModelElement(el) ==
    /\ el.type = "Literal"
    /\ (IncludesClaude(el.value) \/ el.value = "gpt-5")

\* "true" / "false" as some() returns, "throw" when the callback reaches an
\* empty slot before it reaches a matching element.
HasCanonicalModels(elements) ==
    LET k == First({j \in 1..Len(elements) :
                       elements[j].type = "Hole" \/ CanonicalModelElement(elements[j])})
    IN  IF k = 0 THEN "false"
        ELSE IF elements[k].type = "Hole" THEN "throw"
        ELSE "true"

\* Position (i, d) of declarator d of top-level statement i.
DeclPositions(body) ==
    UNION {{<<i, d>> : d \in 1..Len(body[i].declarations)} :
              i \in {j \in 1..Len(body) : body[j].type = "VariableDeclaration"}}

\* Visiting order of two positions of the same length.
Before(p, q) ==
    \/ p[1] < q[1]
    \/ p[1] = q[1] /\ p[2] < q[2]
    \/ p[1] = q[1] /\ p[2] = q[2] /\ (Len(p) = 2 \/ p[3] <= q[3])

FirstPos(S) == CHOOSE p \in S : \A q \in S : Before(p, q)

\* Lines 1031-1055: the name Patch 4 and Patch 6 are given.
DeriveC2VarName(body) ==
    LET decl(p) == body[p[1]].declarations[p[2]]
        stops(p) == /\ decl(p).init.type = "ArrayExpression"
                    /\ Len(decl(p).init.elements) >= 2
                    /\ \/ HasCanonicalModels(decl(p).init.elements) = "throw"
                       \/ /\ HasCanonicalModels(decl(p).init.elements) = "true"
                          /\ decl(p).id.type = "Identifier"
        S == {p \in DeclPositions(body) : stops(p)}
    IN  IF S = {} THEN [threw |-> FALSE, name |-> NULL]
        ELSE IF HasCanonicalModels(decl(FirstPos(S)).init.elements) = "throw"
        THEN [threw |-> TRUE, name |-> NULL]
        ELSE [threw |-> FALSE, name |-> decl(FirstPos(S)).id.name]

\* Position (i, d, p) of property p of the object literal that initialises
\* declarator d of statement i.
PropPositions(body) ==
    UNION {{<<q[1], q[2], p>> :
               p \in 1..Len(body[q[1]].declarations[q[2]].init.properties)} :
              q \in {r \in DeclPositions(body) :
                        body[r[1]].declarations[r[2]].init.type = "ObjectExpression"}}

PropAt(body, q) == body[q[1]].declarations[q[2]].init.properties[q[3]]

\* node is g().optional() with g an identifier
IsValidatorUse(node) ==
    /\ node.type = "CallExpression"
    /\ node.callee.type = "MemberExpression"
    /\ node.callee.property = "optional"
    /\ node.callee.object.type = "CallExpression"
    /\ node.callee.object.callee.type = "Identifier"
    /\ Len(node.callee.object.arguments) = 0

FindQlReference(body) ==
    LET S == {q \in PropPositions(body) :
                 /\ PropAt(body, q).key = "theme"
                 /\ IsValidatorUse(PropAt(body, q).value)}
    IN  IF S = {} THEN NULL
        ELSE PropAt(body, FirstPos(S)).value.callee.object.callee.name

\* The test of one call expression in applySchemaChangesPatch's visit.
IsSchemaTarget(node, c2VarName) ==
    /\ node.type = "CallExpression"
    /\ node.callee.type = "MemberExpression"
    /\ node.callee.property = "optional"
    /\ node.callee.object.type = "CallExpression"
    /\ node.callee.object.callee.type = "Identifier"
    /\ Len(node.callee.object.callee.name) = 2
    /\ Len(node.callee.object.arguments) = 1
    /\ node.callee.object.arguments[1].type = "Identifier"
    /\ node.callee.object.arguments[1].name = c2VarName

SchemaTargets(body, c2VarName) ==
    {q \in PropPositions(body) : IsSchemaTarget(PropAt(body, q).value, c2VarName)}

\* visit(ast): every matching call is rewritten as it is met.
RewriteSchemaUses(body, c2VarName, qlName) ==
    LET prop(pr) == IF IsSchemaTarget(pr.value, c2VarName)
                    THEN [pr EXCEPT !.value = OptionalCall(qlName, <<>>)]
                    ELSE pr
        decl(dc) == IF dc.init.type = "ObjectExpression"
                    THEN [dc EXCEPT !.init.properties =
                             [p \in 1..Len(dc.init.properties) |-> prop(dc.init.properties[p])]]
                    ELSE dc
        stmt(st) == IF st.type = "VariableDeclaration"
                    THEN [st EXCEPT !.declarations =
                             [d \in 1..Len(st.declarations) |-> decl(st.declarations[d])]]
                    ELSE st
    IN  [i \in 1..Len(body) |-> stmt(body[i])]

\* The count is compared with 2 only after the whole tree has been visited.
ApplySchemaChangesPatch(body, c2VarName) ==
    LET qlName == FindQlReference(body)
        patchCount == Cardinality(SchemaTargets(body, c2VarName))
    IN  IF c2VarName = NULL
        THEN [ok |-> FALSE, ast |-> body, patchCount |-> 0]
        ELSE IF qlName = NULL
        THEN [ok |-> FALSE, ast |-> body, patchCount |-> 0]
        ELSE [ok |-> patchCount = 2,
              ast |-> RewriteSchemaUses(body, c2VarName, qlName),
              patchCount |-> patchCount]

\* ------------------------------ Patch 5: remove hardcoded FeI entries
IsLabelValueArray(node) ==
    /\ node.type = "ArrayExpression"
    /\ \A k \in 1..Len(node.elements) :
          /\ node.elements[k].type = "ObjectExpression"
          /\ Len(node.elements[k].keys) = 2
          /\ \A j \in 1..2 : node.elements[k].keys[j] \in {"label", "value"}

ApplyRemoveFeIEntriesPatch(body) ==
    LET decl(p) == body[p[1]].declarations[p[2]]
        S == {p \in DeclPositions(body) :
                 /\ decl(p).init.type = "ArrayExpression"
                 /\ IsLabelValueArray(decl(p).init)
                 /\ Len(decl(p).init.elements) = 3
                 /\ decl(p).id.type = "Identifier"}
        p0 == FirstPos(S)
    IN  IF S = {}
        THEN [foundFeIVarName |-> FALSE, feIVarName |-> NULL, ast |-> body]
        ELSE [foundFeIVarName |-> TRUE, feIVarName |-> decl(p0).id.name,
              ast |-> [body EXCEPT ![p0[1]].declarations[p0[2]].init.elements =
                                       <<decl(p0).init.elements[1]>>]]

\* --------------------------------------- Patch 6: model menu computation
\* generate(node).includes('claude-sonnet') / includes('label:') for a
\* variable declaration: the text of the arrays it declares.
StmtIncludesClaudeSonnet(node) ==
    \E d \in 1..Len(node.declarations) :
       /\ node.declarations[d].init.type = "ArrayExpression"
       /\ \E k \in 1..Len(node.declarations[d].init.elements) :
             IncludesClaudeSonnet(node.declarations[d].init.elements[k].value)

StmtIncludesLabel(node) ==
    \E d \in 1..Len(node.declarations) :
       /\ node.declarations[d].init.type = "ArrayExpression"
       /\ \E k \in 1..Len(node.declarations[d].init.elements) :
             "label" \in SeqToSet(node.declarations[d].init.elements[k].keys)

IsMenuStatement(node) ==
    /\ node.type = "VariableDeclaration"
    /\ node.declarations[1].init.type = "ArrayExpression"
    /\ StmtIncludesClaudeSonnet(node)
    /\ StmtIncludesLabel(node)
    /\ node.declarations[1].id.type = "Identifier"

\* prevInit is f(g(), 1)
IsInteropImport(prevDecl) ==
    /\ prevDecl.init.type = "CallExpression"
    /\ Len(prevDecl.init.arguments) = 2
    /\ prevDecl.init.arguments[1].type = "CallExpression"
    /\ Len(prevDecl.init.arguments[1].arguments) = 0
    /\ prevDecl.init.arguments[2].type = "Literal"
    /\ prevDecl.init.arguments[2].value = "1"
    /\ prevDecl.id.type = "Identifier"

\* The first menu statement decides: the statement before it is the import
\* or the search fails.
FindReactImportForMenu(body) ==
    LET i == First({j \in 1..Len(body) : IsMenuStatement(body[j])})
    IN  IF i = 0 THEN [index |-> 0, reactVarName |-> NULL]
        ELSE IF /\ i > 1
                /\ body[i - 1].type = "VariableDeclaration"
                /\ IsInteropImport(body[i - 1].declarations[1])
        THEN [index |-> i - 1, reactVarName |-> body[i - 1].declarations[1].id.name]
        ELSE [index |-> 0, reactVarName |-> NULL]

NoVars == [n |-> NULL, r |-> NULL, s |-> NULL, o |-> NULL, d |-> NULL, G |-> NULL]

\* status: "found", "null" (a logged failure) or "throw": body[0].type and
\* body[2].type are read without a test that the statements exist.
FindModelSelectionVars(body, menuArrayName) ==
    LET hit(j) == /\ body[j].type = "VariableDeclaration"
                  /\ Len(body[j].declarations) = 2
                  /\ body[j].declarations[1].id.type = "Identifier"
                  /\ body[j].declarations[1].id.name = menuArrayName
                  /\ body[j].declarations[2].init.type = "ArrowFunctionExpression"
                  /\ Len(body[j].declarations[2].init.params) >= 1
                  /\ body[j].declarations[2].init.params[1].type = "ObjectPattern"
        i == First({j \in 1..Len(body) : hit(j)})
        ui == body[i].declarations[2].init
        params == ui.params[1].properties
        m == First({j \in 1..Len(params) :
                       params[j].type = "Property" /\ params[j].key = "models"})
        stmts == IF ui.body.type = "BlockStatement" THEN ui.body.body ELSE <<>>
        useStateOk == /\ stmts[1].type = "VariableDeclaration"
                      /\ stmts[1].declarations[1].id.type = "ArrayPattern"
                      /\ Len(stmts[1].declarations[1].id.elements) >= 1
                      /\ stmts[1].declarations[1].id.elements[1].type = "Identifier"
        varsOk == /\ stmts[3].type = "VariableDeclaration"
                  /\ Len(stmts[3].declarations) = 4
                  /\ \A k \in 1..4 : stmts[3].declarations[k].id.type = "Identifier"
    IN  IF i = 0 THEN [status |-> "null", vars |-> NoVars]
        ELSE IF m = 0 THEN [status |-> "null", vars |-> NoVars]
        ELSE IF params[m].value.type # "Identifier" THEN [status |-> "null", vars |-> NoVars]
        ELSE IF Len(stmts) < 1 THEN [status |-> "throw", vars |-> NoVars]
        ELSE IF ~useStateOk THEN [status |-> "null", vars |-> NoVars]
        ELSE IF Len(stmts) < 3 THEN [status |-> "throw", vars |-> NoVars]
        ELSE IF ~varsOk THEN [status |-> "null", vars |-> NoVars]
        ELSE [status |-> "found",
              vars |-> [n |-> params[m].value.name,
                        r |-> stmts[1].declarations[1].id.elements[1].name,
                        s |-> stmts[3].declarations[1].id.name,
                        o |-> stmts[3].declarations[2].id.name,
                        d |-> stmts[3].declarations[3].id.name,
                        G |-> stmts[3].declarations[4].id.name]]

\* The expression parsed from menuComputationCode, with the names that were
\* interpolated into it.
MenuComputation(reactVarName, vars, menuArrayName, c2VarName, fxeFuncName) ==
    [type |-> "CallExpression",
     callee |-> [type |-> "SequenceExpression",
                 expressions |-> <<Lit("0"), Member(Ident(reactVarName), "useMemo")>>],
     arguments |-> <<>>,
     uses |-> [models |-> vars.n, menu |-> menuArrayName, collection |-> c2VarName,
               predicate |-> fxeFuncName, default |-> vars.o, current |-> vars.r]]

\* The declarators visit() looks for in one variable declaration; 0: absent.
MenuDecls(node, vars) ==
    LET D == node.declarations
        named(j, name) == D[j].id.type = "Identifier" /\ D[j].id.name = name
    IN  [s |-> First({j \in 1..Len(D) :
                         named(j, vars.s) /\ D[j].init.type = "ArrowFunctionExpression"}),
         o |-> First({j \in 1..Len(D) : named(j, vars.o)}),
         d |-> First({j \in 1..Len(D) :
                         /\ named(j, vars.d)
                         /\ D[j].init.type = "CallExpression"
                         /\ D[j].init.callee.type = "MemberExpression"
                         /\ D[j].init.callee.property = "map"}),
         G |-> First({j \in 1..Len(D) : named(j, vars.G)})]

IsMenuVarsStatement(node, vars) ==
    /\ node.type = "VariableDeclaration"
    /\ MenuDecls(node, vars).s # 0 /\ MenuDecls(node, vars).o # 0
    /\ MenuDecls(node, vars).d # 0 /\ MenuDecls(node, vars).G # 0

\* Statement k of the block body of the arrow function that initialises
\* declarator d of top-level statement i: position (i, d, k).
InnerPositions(body) ==
    UNION {{<<q[1], q[2], k>> :
               k \in 1..Len(body[q[1]].declarations[q[2]].init.body.body)} :
              q \in {r \in DeclPositions(body) :
                        /\ body[r[1]].declarations[r[2]].init.type = "ArrowFunctionExpression"
                        /\ body[r[1]].declarations[r[2]].init.body.type = "BlockStatement"}}

InnerAt(body, q) == body[q[1]].declarations[q[2]].init.body.body[q[3]]

\* node.declarations = [sDecl, oDecl, computedMenuItemsDecl]
ReplacedMenuVars(node, vars, init) ==
    [node EXCEPT !.declarations =
        <<node.declarations[MenuDecls(node, vars).s],
          node.declarations[MenuDecls(node, vars).o],
          Decl(Ident("computedMenuItems"), init)>>]

\* the statement spliced in after it: let d = computedMenuItems, G = ...
FollowUpMenuVars(node, vars) ==
    VarDecl(<<Decl(Ident(vars.d), Ident("computedMenuItems")),
              node.declarations[MenuDecls(node, vars).G]>>)

\* A declaration that is not an element of a statement list: the init of a
\* top-level for statement.
IsUnlistedMenuVars(st, vars) ==
    /\ st.type = "ForStatement"
    /\ IsMenuVarsStatement(st.init, vars)

\* visit() assigns node.declarations before it looks at parent, key and
\* index: a matching declaration outside a statement list loses its d and G
\* declarators, nothing is spliced in and the walk goes on.  `upTo` is the
\* top-level index at which the walk stops.
RewriteUnlisted(body, vars, init, upTo) ==
    [i \in 1..Len(body) |->
        IF i < upTo /\ IsUnlistedMenuVars(body[i], vars)
        THEN [body[i] EXCEPT !.init = ReplacedMenuVars(body[i].init, vars, init)]
        ELSE body[i]]

\* visit(): pre-order, so a top-level statement is met before the statements
\* inside it; the first match in a statement list is rewritten and ends the
\* walk.
RewriteMenuComputation(body, vars, init) ==
    LET top == {<<i, 0, 0>> : i \in {j \in 1..Len(body) : IsMenuVarsStatement(body[j], vars)}}
        inner == {q \in InnerPositions(body) : IsMenuVarsStatement(InnerAt(body, q), vars)}
        q0 == FirstPos(top \cup inner)
        i0 == q0[1]
        walked == RewriteUnlisted(body, vars, init, i0)
        blk == body[i0].declarations[q0[2]].init.body.body
    IN  IF top \cup inner = {}
        THEN [ok |-> FALSE, ast |-> RewriteUnlisted(body, vars, init, Len(body) + 1)]
        ELSE IF q0[2] = 0
        THEN [ok |-> TRUE,
              ast |-> InsertAfter([walked EXCEPT ![i0] = ReplacedMenuVars(body[i0], vars, init)],
                                  i0, FollowUpMenuVars(body[i0], vars))]
        ELSE [ok |-> TRUE,
              ast |-> [walked EXCEPT ![i0].declarations[q0[2]].init.body.body =
                          InsertAfter([blk EXCEPT ![q0[3]] =
                                          ReplacedMenuVars(blk[q0[3]], vars, init)],
                                      q0[3], FollowUpMenuVars(blk[q0[3]], vars))]]

\* status: "applied", "failed" or "threw".  Only menuArrayName is tested
\* before the names are interpolated.
ApplyModelMenuComputationPatch(body, c2VarName, menuArrayName, fxeFuncName, reactVarName) ==
    LET found == FindModelSelectionVars(body, menuArrayName)
        init == MenuComputation(reactVarName, found.vars, menuArrayName,
                                c2VarName, fxeFuncName)
        rewritten == RewriteMenuComputation(body, found.vars, init)
    IN  IF menuArrayName = NULL THEN [status |-> "failed", ast |-> body]
        ELSE IF found.status = "throw" THEN [status |-> "threw", ast |-> body]
        ELSE IF found.status = "null" THEN [status |-> "failed", ast |-> body]
        ELSE IF rewritten.ok THEN [status |-> "applied", ast |-> rewritten.ast]
        ELSE [status |-> "failed", ast |-> rewritten.ast]

\* --------------------------------------- Patch 8: commander model option
IsN6(node) ==
    /\ node.type = "NewExpression"
    /\ Len(node.arguments) >= 1
    /\ node.arguments[1].type = "Literal"
    /\ node.arguments[1].value = "--model <model>"

\* The option constructor is the first argument of a call statement, bare or
\* as the object of a member call: new N6(...).choices(X).
HasBareN6(st) ==
    /\ st.type = "ExpressionStatement"
    /\ st.expression.type = "CallExpression"
    /\ Len(st.expression.arguments) >= 1
    /\ IsN6(st.expression.arguments[1])

HasWrappedN6(st) ==
    /\ st.type = "ExpressionStatement"
    /\ st.expression.type = "CallExpression"
    /\ Len(st.expression.arguments) >= 1
    /\ st.expression.arguments[1].type = "CallExpression"
    /\ st.expression.arguments[1].callee.type = "MemberExpression"
    /\ IsN6(st.expression.arguments[1].callee.object)

SimpleDescription ==
    [type |-> "TemplateLiteral", quasis |-> <<"Set the AI model to use">>, expressions |-> <<>>]

SimplifyDescription(n6) ==
    IF Len(n6.arguments) >= 2 /\ n6.arguments[2].type = "TemplateLiteral"
    THEN [n6 EXCEPT !.arguments[2] = SimpleDescription]
    ELSE n6

\* Succeeds whenever the constructor is found; the argument of .choices() is
\* not looked at.
ApplyCommanderModelOptionPatch(body) ==
    LET i == First({j \in 1..Len(body) : HasBareN6(body[j]) \/ HasWrappedN6(body[j])})
        wrap == body[i].expression.arguments[1]
    IN  IF i = 0 THEN [ok |-> FALSE, ast |-> body]
        ELSE IF HasBareN6(body[i])
        THEN [ok |-> TRUE,
              ast |-> [body EXCEPT ![i].expression.arguments[1] = SimplifyDescription(wrap)]]
        ELSE IF wrap.callee.property = "choices"
        THEN [ok |-> TRUE,
              ast |-> [body EXCEPT ![i].expression.arguments[1] =
                                       SimplifyDescription(wrap.callee.object)]]
        ELSE [ok |-> TRUE,
              ast |-> [body EXCEPT ![i].expression.arguments[1].callee.object =
                                       SimplifyDescription(wrap.callee.object)]]

\* ------------------------------------------------------------- the inputs
\* Input programs are built from the constructs the patches look for, each
\* present in one of a few shapes or absent, in the order they have in the
\* target program.

\* var C2 = ["claude-sonnet-4.5", "gpt-5"]
C2Decl == VarDecl(<<Decl(Ident("C2"), ArrayExpr(<<Elem("claude-sonnet-4.5"), Elem("gpt-5")>>))>>)

\* var Zz = ["claude-opus-4", "o3"]: no literal findC2Reference knows
OtherDecl == VarDecl(<<Decl(Ident("Zz"), ArrayExpr(<<Elem("claude-opus-4"), Elem("o3")>>))>>)

\* var C2 = [ , "gpt-5"]
HoleDecl == VarDecl(<<Decl(Ident("C2"), ArrayExpr(<<Hole, Elem("gpt-5")>>))>>)

CollectionShapes == {<<>>, <<C2Decl>>, <<OtherDecl, C2Decl>>, <<HoleDecl>>, <<OtherDecl>>}

\* function Fx(a, b) { ... b.find(..).id .. .policy.state !== "disabled" }
FxeDecl ==
    FuncDecl("Fx", <<Ident("a"), Ident("b")>>,
             {".find", ".id", ".policy", ".state", "\"disabled\""}, {"a", "b"})

\* function Fw(t, e): the same without the "disabled" literal
WeakDecl == FuncDecl("Fw", <<Ident("t"), Ident("e")>>, {".find", ".id", ".policy"}, {"t", "e"})

FxeShapes == {<<>>, <<FxeDecl>>, <<WeakDecl>>, <<WeakDecl, FxeDecl>>}

\* function RW(u) { let e = C2.find(..); if (!e) throw new Error("No supported model"); }
RWeDecl ==
    FuncDecl("RW", <<Ident("u")>>,
             {"C2.find", ".find", "throw", "Error", "supported model"},
             {"C2", "Fx", "u", "Error"})

RWeShapes == {<<>>, <<RWeDecl>>}

UseKeys == <<"model", "selectedModel", "defaultModel", "fallbackModel", "lastModel">>

\* n properties key: f(x).optional()
Uses(f, x, n) == [k \in 1..n |-> Prop(UseKeys[k], OptionalCall(f, <<Ident(x)>>))]

ThemeProp == Prop("theme", OptionalCall("Ql", <<>>))

SchemaDecl(props) == VarDecl(<<Decl(Ident("Sc"), ObjectExpr(props))>>)

SchemaShapes ==
    {<<>>}
    \cup {<<SchemaDecl(<<ThemeProp>> \o Uses("E2", "C2", n))>> : n \in 1..MaxSchemaUses}
    \cup {<<SchemaDecl(<<ThemeProp>> \o Uses("E2", "C2", 2)
                       \o <<Prop("agent", OptionalCall("E2", <<Ident("Zz")>>))>>)>>,
          <<SchemaDecl(<<ThemeProp>> \o Uses("Enum", "C2", 2))>>,
          <<SchemaDecl(<<ThemeProp>> \o Uses("E2", "Zz", 2))>>}

\* var uy = ie(rq(), 1)
ReactImport ==
    VarDecl(<<Decl(Ident("uy"), Call(Ident("ie"), <<Call(Ident("rq"), <<>>), Lit("1")>>))>>)

MenuEntry(v) == ObjElem(<<"label", "value">>, v)

MenuEntries == <<MenuEntry("claude-sonnet-4.5"), MenuEntry("claude-opus-4"), MenuEntry("gpt-5")>>

\* var [r, q] = uy.useState()
UseStateStmt ==
    VarDecl(<<Decl([type |-> "ArrayPattern", elements |-> <<Ident("r"), Ident("q")>>],
                   Call(Member(Ident("uy"), "useState"), <<>>))>>)

EffectStmt == ExprStmt(Call(Member(Ident("uy"), "useEffect"), <<>>))

\* var s = () => {}, o = RW(n), d = FeI.filter(..).map(..), G = {}
VarsStmt ==
    VarDecl(<<Decl(Ident("s"), Arrow(<<>>, Block(<<>>))),
              Decl(Ident("o"), Call(Ident("RW"), <<Ident("n")>>)),
              Decl(Ident("d"), Call(Member(Ident("FeI"), "map"), <<>>)),
              Decl(Ident("G"), ObjectExpr(<<>>))>>)

\* var s = () => {}, o = RW(n), d = FeI.filter(..), G = {}: no .map() call
VarsStmtWithoutMap ==
    VarDecl(<<Decl(Ident("s"), Arrow(<<>>, Block(<<>>))),
              Decl(Ident("o"), Call(Ident("RW"), <<Ident("n")>>)),
              Decl(Ident("d"), Call(Member(Ident("FeI"), "filter"), <<>>)),
              Decl(Ident("G"), ObjectExpr(<<>>))>>)

\* for (var s = () => {}, o = RW(n), d = FeI.map(..), G = {}; ; ) {}
ForVars == [type |-> "ForStatement", init |-> VarsStmt]

ModelsPattern == [type |-> "ObjectPattern", properties |-> <<Prop("models", Ident("n"))>>]

\* var FeI = [entries], Ui = ({models: n}) => { stmts }
MenuDecl(entries, stmts) ==
    VarDecl(<<Decl(Ident("FeI"), ArrayExpr(entries)),
              Decl(Ident("Ui"), Arrow(<<ModelsPattern>>, Block(stmts)))>>)

\* var Lb = [{label: "a", label: "a"}, {label: "b", label: "b"}, {label: "c", label: "c"}]
RepeatedKeyDecl ==
    VarDecl(<<Decl(Ident("Lb"),
                   ArrayExpr(<<ObjElem(<<"label", "label">>, "a"),
                               ObjElem(<<"label", "label">>, "b"),
                               ObjElem(<<"label", "label">>, "c")>>))>>)

MenuShapes ==
    {<<>>,
     <<ReactImport, MenuDecl(MenuEntries, <<UseStateStmt, EffectStmt, VarsStmt>>)>>,
     <<ReactImport, MenuDecl(MenuEntries, <<UseStateStmt, VarsStmt>>)>>,
     <<MenuDecl(MenuEntries, <<UseStateStmt, EffectStmt, VarsStmt>>)>>,
     <<ReactImport, MenuDecl(SubSeq(MenuEntries, 1, 2), <<UseStateStmt, EffectStmt, VarsStmt>>)>>,
     <<ReactImport, RepeatedKeyDecl, MenuDecl(MenuEntries, <<UseStateStmt, EffectStmt, VarsStmt>>)>>,
     <<ForVars, ReactImport, MenuDecl(MenuEntries, <<UseStateStmt, EffectStmt, VarsStmtWithoutMap>>)>>}

\* new N6("--model <model>", `Set the AI model to use (${C2.join(", ")})`)
N6Expr ==
    [type |-> "NewExpression", callee |-> Ident("N6"),
     arguments |-> <<Lit("--model <model>"),
                     [type |-> "TemplateLiteral",
                      quasis |-> <<"Set the AI model to use (", ")">>,
                      expressions |-> <<Call(Member(Ident("C2"), "join"), <<>>)>>]>>]

\* prog.addOption(arg)
CommanderStmt(arg) == ExprStmt(Call(Member(Ident("prog"), "addOption"), <<arg>>))

CommanderShapes ==
    {<<>>,
     <<CommanderStmt(N6Expr)>>,
     <<CommanderStmt(Call(Member(N6Expr, "choices"), <<Ident("C2")>>))>>,
     <<CommanderStmt(Call(Member(N6Expr, "choices"), <<Ident("Zz")>>))>>}

Programs ==
    {c \o f \o w \o s \o m \o o :
        c \in CollectionShapes, f \in FxeShapes, w \in RWeShapes,
        s \in SchemaShapes, m \in MenuShapes, o \in CommanderShapes}

\* The whole target program in its expected shape.
Fixture ==
    <<C2Decl, FxeDecl, RWeDecl, SchemaDecl(<<ThemeProp>> \o Uses("E2", "C2", 2)),
      ReactImport, MenuDecl(MenuEntries, <<UseStateStmt, EffectStmt, VarsStmt>>),
      CommanderStmt(Call(Member(N6Expr, "choices"), <<Ident("C2")>>))>>

\* A text: its interpreter directive ("" when it has none), whether UglifyJS
\* and meriyah accept it, and the tree it parses to.
Text(shebang, syntax, tree) == [shebang |-> shebang, syntax |-> syntax, tree |-> tree]

NodeShebang == "#!/usr/bin/env node"

Inputs ==
    {Text("", "ok", p) : p \in Programs}
    \cup {Text(sb, sy, p) :
             sb \in {"", "#!/usr/bin/env bun"},
             sy \in {"ok", "beautify-fails", "parse-fails"},
             p \in {Fixture, Fixture \o <<Unprintable>>, <<C2Decl>>, <<Unprintable>>}}

\* ------------------------------------------ writeModelExtensions (tree)
Patches ==
    {"C2Extension", "FxeFunction", "RWeFunction", "SchemaChanges",
     "RemoveFeIEntries", "ModelMenuComputation", "CommanderModelOption"}

\* The patches that interpolate or compare the collection name.
CollectionUsers == {"C2Extension", "RWeFunction", "SchemaChanges", "ModelMenuComputation"}

NoText == Text("", "ok", <<>>)

\* How a run ended: "none" while it runs, "text" (a string was returned),
\* "null" (null was returned) or "throw" (an exception left the function).
Returned(kind, text) == [kind |-> kind, text |-> text]

NotAttempted == [p \in Patches |-> "NotAttempted"]

Unbound == [p \in CollectionUsers |-> NULL]

VARIABLES
    content,      \* the argument of writeModelExtensions
    pc,           \* the statement the run is at
    ast,          \* ast.body
    astBefore,    \* ast.body as it was when the last patch started
    fxeFuncName,  \* the locals of writeModelExtensions
    c2VarName,
    feIVarName,
    outcome,      \* what each patch reported in this run
    c2Used,       \* the collection name each patch worked with
    rweSearched,  \* findRWeReference was called in this run
    result,       \* how the run ended
    previous,     \* outcome of the run that produced content
    run

\* The state of the textual realization's edit applier.
VARIABLES
    oldFile,      \* the text the edits were located in
    located,      \* what findModelExtensionLocations returned for it
    edits,        \* the batch
    newFile       \* what the applier produced

treeVars ==
    <<content, pc, ast, astBefore, fxeFuncName, c2VarName, feIVarName,
      outcome, c2Used, rweSearched, result, previous, run>>

editVars == <<oldFile, located, edits, newFile>>

VARIABLES
    runtime,      \* one execution of code a patch put into the returned text
    scan,         \* findModelExtensionLocations walking the schema properties
    version,      \* writeVersionOutput
    welcome,      \* writeWelcomeMessage
    banner        \* the Banner component

\* No patched code has been executed.
NoRuntime == [kind |-> "none"]

\* The other functions have not been called, the component is not mounted.
Idle == [kind |-> "idle"]

auxVars == <<runtime, scan, version, welcome, banner>>

AuxIdle ==
    /\ runtime = NoRuntime
    /\ scan = Idle
    /\ version = Idle
    /\ welcome = Idle
    /\ banner = Idle

\* The two realizations of writeModelExtensions are not running.
PatcherIdle(at) ==
    /\ content = NoText
    /\ pc = at
    /\ ast = <<>>
    /\ astBefore = <<>>
    /\ fxeFuncName = NULL
    /\ c2VarName = NULL
    /\ feIVarName = NULL
    /\ outcome = NotAttempted
    /\ c2Used = Unbound
    /\ rweSearched = FALSE
    /\ result = Returned("none", NoText)
    /\ previous = NotAttempted
    /\ run = 1
    /\ oldFile = <<>>
    /\ located = "parse-failed"
    /\ edits = <<>>
    /\ newFile = [kind |-> "none", chars |-> <<>>]

\* What a run of the tree realization leaves alone.
otherVars == <<editVars, auxVars>>

vars == <<treeVars, editVars, auxVars>>

\* kind: "none" before the applier ran, then "text" or "null" (rejected).
Produced(kind, chars) == [kind |-> kind, chars |-> chars]

Init ==
    /\ content \in Inputs
    /\ pc = "beautify"
    /\ ast = <<>>
    /\ astBefore = <<>>
    /\ fxeFuncName = NULL
    /\ c2VarName = NULL
    /\ feIVarName = NULL
    /\ outcome = NotAttempted
    /\ c2Used = Unbound
    /\ rweSearched = FALSE
    /\ result = Returned("none", NoText)
    /\ previous = NotAttempted
    /\ run = 1
    /\ oldFile = <<>>
    /\ located = "parse-failed"
    /\ edits = <<>>
    /\ newFile = Produced("none", <<>>)
    /\ AuxIdle

Reported(ok) == IF ok THEN "Applied" ELSE "Failed"

\* 1. UglifyJS.minify(content, {beautify})
Beautify ==
    /\ pc = "beautify"
    /\ UNCHANGED otherVars
    /\ IF content.syntax = "beautify-fails"
       THEN pc' = "done" /\ result' = Returned("null", NoText)
       ELSE pc' = "parse" /\ UNCHANGED result
    /\ UNCHANGED <<content, ast, astBefore, fxeFuncName, c2VarName, feIVarName,
                   outcome, c2Used, rweSearched, previous, run>>

\* A parse step that would go on to the patches whatever parseModule did.
ParseIgnoringFailure ==
    /\ pc = "parse"
    /\ UNCHANGED otherVars
    /\ pc' = "patch1" /\ ast' = content.tree /\ astBefore' = content.tree
    /\ UNCHANGED <<content, fxeFuncName, c2VarName, feIVarName,
                   outcome, c2Used, rweSearched, result, previous, run>>

\* 2. parseModule(beautified, {next: true})
Parse ==
    /\ pc = "parse"
    /\ UNCHANGED otherVars
    /\ IF content.syntax = "parse-fails"
       THEN pc' = "done" /\ result' = Returned("null", NoText) /\ UNCHANGED <<ast, astBefore>>
       ELSE pc' = "patch1" /\ ast' = content.tree /\ astBefore' = content.tree
            /\ UNCHANGED result
    /\ UNCHANGED <<content, fxeFuncName, c2VarName, feIVarName,
                   outcome, c2Used, rweSearched, previous, run>>

ApplyC2Extension ==
    /\ pc = "patch1"
    /\ UNCHANGED otherVars
    /\ LET r == ApplyC2ExtensionPatch(ast)
       IN  /\ ast' = r.ast
           /\ outcome' = [outcome EXCEPT !["C2Extension"] = Reported(r.ok)]
           /\ c2Used' = [c2Used EXCEPT !["C2Extension"] = r.c2]
    /\ astBefore' = ast
    /\ pc' = "patch2"
    /\ UNCHANGED <<content, fxeFuncName, c2VarName, feIVarName, rweSearched,
                   result, previous, run>>

\* The name search of lines 999-1012, then applyFxeFunctionPatch.
ApplyFxeFunction ==
    /\ pc = "patch2"
    /\ UNCHANGED otherVars
    /\ fxeFuncName' = DeriveFxeFuncName(ast)
    /\ LET r == ApplyFxeFunctionPatch(ast)
       IN  /\ ast' = r.ast
           /\ outcome' = [outcome EXCEPT !["FxeFunction"] = Reported(r.ok)]
    /\ astBefore' = ast
    /\ pc' = "patch3"
    /\ UNCHANGED <<content, c2VarName, feIVarName, c2Used, rweSearched,
                   result, previous, run>>

\* Patch 3 as it would be if it were handed the tree as parsed instead of the
\* tree the earlier patches left.
ApplyRWeFunctionOnParsedTree ==
    /\ pc = "patch3"
    /\ UNCHANGED otherVars
    /\ LET r == ApplyRWeFunctionPatch(content.tree, fxeFuncName)
       IN  /\ ast' = r.ast
           /\ outcome' = [outcome EXCEPT !["RWeFunction"] = Reported(r.ok)]
           /\ c2Used' = [c2Used EXCEPT !["RWeFunction"] = r.c2]
           /\ rweSearched' = r.searched
    /\ astBefore' = ast
    /\ pc' = "patch4"
    /\ UNCHANGED <<content, fxeFuncName, c2VarName, feIVarName, result, previous, run>>

ApplyRWeFunction ==
    /\ pc = "patch3"
    /\ UNCHANGED otherVars
    /\ LET r == ApplyRWeFunctionPatch(ast, fxeFuncName)
       IN  /\ ast' = r.ast
           /\ outcome' = [outcome EXCEPT !["RWeFunction"] = Reported(r.ok)]
           /\ c2Used' = [c2Used EXCEPT !["RWeFunction"] = r.c2]
           /\ rweSearched' = r.searched
    /\ astBefore' = ast
    /\ pc' = "patch4"
    /\ UNCHANGED <<content, fxeFuncName, c2VarName, feIVarName, result, previous, run>>

\* The name search of lines 1031-1055, then applySchemaChangesPatch.
ApplySchemaChanges ==
    /\ pc = "patch4"
    /\ UNCHANGED otherVars
    /\ LET derived == DeriveC2VarName(ast)
           r == ApplySchemaChangesPatch(ast, derived.name)
       IN  IF derived.threw
           THEN /\ pc' = "threw"
                /\ result' = Returned("throw", NoText)
                /\ outcome' = [outcome EXCEPT !["SchemaChanges"] = "Threw"]
                /\ UNCHANGED <<ast, c2VarName, c2Used>>
           ELSE /\ pc' = "patch5"
                /\ c2VarName' = derived.name
                /\ ast' = r.ast
                /\ outcome' = [outcome EXCEPT !["SchemaChanges"] = Reported(r.ok)]
                /\ c2Used' = [c2Used EXCEPT !["SchemaChanges"] = derived.name]
                /\ UNCHANGED result
    /\ astBefore' = ast
    /\ UNCHANGED <<content, fxeFuncName, feIVarName, rweSearched, previous, run>>

ApplyRemoveFeIEntries ==
    /\ pc = "patch5"
    /\ UNCHANGED otherVars
    /\ LET r == ApplyRemoveFeIEntriesPatch(ast)
       IN  /\ ast' = r.ast
           /\ feIVarName' = r.feIVarName
           /\ outcome' = [outcome EXCEPT !["RemoveFeIEntries"] = Reported(r.foundFeIVarName)]
    /\ astBefore' = ast
    /\ pc' = "patch6"
    /\ UNCHANGED <<content, fxeFuncName, c2VarName, c2Used, rweSearched,
                   result, previous, run>>

\* findReactImportForMenu, then applyModelMenuComputationPatch.
ApplyModelMenuComputation ==
    /\ pc = "patch6"
    /\ UNCHANGED otherVars
    /\ LET reactRef == FindReactImportForMenu(ast)
           r == ApplyModelMenuComputationPatch(ast, c2VarName, feIVarName, fxeFuncName,
                                               reactRef.reactVarName)
       IN  IF reactRef.index = 0
           THEN /\ pc' = "patch8"
                /\ outcome' = [outcome EXCEPT !["ModelMenuComputation"] = "Failed"]
                /\ UNCHANGED <<ast, c2Used, result>>
           ELSE IF r.status = "threw"
           THEN /\ pc' = "threw"
                /\ result' = Returned("throw", NoText)
                /\ outcome' = [outcome EXCEPT !["ModelMenuComputation"] = "Threw"]
                /\ UNCHANGED <<ast, c2Used>>
           ELSE /\ pc' = "patch8"
                /\ ast' = r.ast
                /\ outcome' = [outcome EXCEPT !["ModelMenuComputation"] =
                                                 Reported(r.status = "applied")]
                /\ c2Used' = [c2Used EXCEPT !["ModelMenuComputation"] =
                                               IF r.status = "applied" THEN c2VarName ELSE NULL]
                /\ UNCHANGED result
    /\ astBefore' = ast
    /\ UNCHANGED <<content, fxeFuncName, c2VarName, feIVarName, rweSearched, previous, run>>

ApplyCommanderModelOption ==
    /\ pc = "patch8"
    /\ UNCHANGED otherVars
    /\ LET r == ApplyCommanderModelOptionPatch(ast)
       IN  /\ ast' = r.ast
           /\ outcome' = [outcome EXCEPT !["CommanderModelOption"] = Reported(r.ok)]
    /\ astBefore' = ast
    /\ pc' = "generate"
    /\ UNCHANGED <<content, fxeFuncName, c2VarName, feIVarName, c2Used, rweSearched,
                   result, previous, run>>

\* generate(ast) throws on a node it has no printer for.
Serializes(body) == \A i \in 1..Len(body) : body[i].type # "Unprintable"

\* 4. generate(ast); the printed tree never starts with "#!", so the node
\* directive is always put in front.
Generate ==
    /\ pc = "generate"
    /\ UNCHANGED otherVars
    /\ result' = IF Serializes(ast)
                 THEN Returned("text", Text(NodeShebang, "ok", ast))
                 ELSE Returned("null", NoText)
    /\ pc' = "done"
    /\ UNCHANGED <<content, ast, astBefore, fxeFuncName, c2VarName, feIVarName,
                   outcome, c2Used, rweSearched, previous, run>>

\* The returned text is given to writeModelExtensions again.
Rerun ==
    /\ pc = "done"
    /\ UNCHANGED otherVars
    /\ result.kind = "text"
    /\ run < MaxRuns
    /\ content' = result.text
    /\ pc' = "beautify"
    /\ ast' = <<>>
    /\ astBefore' = <<>>
    /\ fxeFuncName' = NULL
    /\ c2VarName' = NULL
    /\ feIVarName' = NULL
    /\ outcome' = NotAttempted
    /\ c2Used' = Unbound
    /\ rweSearched' = FALSE
    /\ result' = Returned("none", NoText)
    /\ previous' = outcome
    /\ run' = run + 1

\* --------------------------------------------- the patched code at run time
\* The names interpolated into the menu computation that statement st holds.
SplicedUses(st) ==
    IF st.type = "VariableDeclaration"
    THEN {st.declarations[d].init.uses :
             d \in {e \in 1..Len(st.declarations) :
                       /\ st.declarations[e].id.type = "Identifier"
                       /\ st.declarations[e].id.name = "computedMenuItems"
                       /\ st.declarations[e].init.type = "CallExpression"}}
    ELSE {}

SplicedMenuUses(body) ==
    UNION ({SplicedUses(body[i]) : i \in 1..Len(body)}
           \cup {SplicedUses(InnerAt(body, q)) : q \in InnerPositions(body)})

\* A runtime value: an array with its items, or something that is no array
\* (null, undefined): reading a property of it throws.
ArrayOf(items) == [isArray |-> TRUE, items |-> items]

NotAnArray == [isArray |-> FALSE, items |-> <<>>]

\* What the top-level variable `name` holds when the program has started:
\* the values of the array literal it is declared with, "undefined" for an
\* empty slot.
ArrayValue(body, name) ==
    LET S == {p \in DeclPositions(body) :
                 /\ body[p[1]].declarations[p[2]].id.type = "Identifier"
                 /\ body[p[1]].declarations[p[2]].id.name = name
                 /\ body[p[1]].declarations[p[2]].init.type = "ArrayExpression"}
        els == body[FirstPos(S)[1]].declarations[FirstPos(S)[2]].init.elements
    IN  IF name = NULL \/ S = {}
        THEN NotAnArray
        ELSE ArrayOf([k \in 1..Len(els) |->
                        IF els[k].type = "Hole" THEN "undefined" ELSE els[k].value])

\* The model ids the values at run time are drawn from.
RuntimeIds == {"claude-sonnet-4.5", "claude-opus-4", "gpt-5", "o3", "undefined"}

\* The list of models the component is given: none, empty, one, two.
RuntimeLists == {NotAnArray, ArrayOf(<<>>), ArrayOf(<<"o3">>), ArrayOf(<<"o3", "gpt-5">>)}

\* What the call of the predicate does for each id: "pass" (truthy), "fail"
\* (falsy) or "throw".
Verdicts ==
    {[v \in RuntimeIds |-> "pass"],
     [v \in RuntimeIds |-> "throw"],
     [v \in RuntimeIds |-> IF v = "gpt-5" THEN "pass" ELSE IF v = "o3" THEN "throw" ELSE "fail"]}

Thrown == [kind |-> "throw", items |-> <<>>]

Value(items) == [kind |-> "value", items |-> items]

\* baseEntries of menuComputationCode, by their value fields: the models given
\* when they are a non-empty array, else the menu array when it is one, else
\* collection.map(...), which throws when the collection is no array.
BaseEntries(models, menu, collection) ==
    IF models.isArray /\ Len(models.items) > 0 THEN Value(models.items)
    ELSE IF menu.isArray /\ Len(menu.items) > 0 THEN Value(menu.items)
    ELSE IF collection.isArray THEN Value(collection.items)
    ELSE Thrown

\* baseEntries.filter(...): an entry stays when the predicate returns a truthy
\* value; the catch clause returns false.  A null predicate name makes every
\* call throw.
FilterEntries(base, predicate, verdict) ==
    IF base.kind = "throw" THEN Thrown
    ELSE Value(SelectSeq(base.items,
                         LAMBDA v : predicate # NULL /\ verdict[v] = "pass"))

\* One evaluation of a menu computation that is in the returned text.  The
\* menu array holds what Patch 5 left, or nothing when the program emptied it.
RunMenuComputation ==
    /\ pc = "done"
    /\ result.kind = "text"
    /\ runtime = NoRuntime
    /\ \E u \in SplicedMenuUses(result.text.tree), models \in RuntimeLists,
          emptied \in BOOLEAN, verdict \in Verdicts :
          LET menu == IF emptied THEN ArrayOf(<<>>)
                      ELSE ArrayValue(result.text.tree, u.menu)
              collection == ArrayValue(result.text.tree, u.collection)
          IN  runtime' = [kind |-> "menu", uses |-> u, models |-> models,
                          menu |-> menu, verdict |-> verdict,
                          out |-> FilterEntries(BaseEntries(models, menu, collection),
                                                u.predicate, verdict)]
    /\ pc' = "ran"
    /\ UNCHANGED <<content, ast, astBefore, fxeFuncName, c2VarName, feIVarName,
                   outcome, c2Used, rweSearched, result, previous, run>>
    /\ UNCHANGED <<editVars, scan, version, welcome, banner>>

\* A value from outside the program: none, or a string.
Absent == [kind |-> "absent", text |-> ""]

Str(t) == [kind |-> "string", text |-> t]

\* process.env.COPILOT_MODEL
EnvValues == {Absent, Str("o3"), Str("gpt-5")}

\* ~/.copilot/config.json: no such file, a text JSON.parse rejects, an object
\* whose model is no string, or an object with a string model.
CfgValues ==
    {[kind |-> "no-file", text |-> ""], [kind |-> "bad-json", text |-> ""],
     [kind |-> "no-model", text |-> ""], Str("o3"), Str("gpt-5"), Str("")}

Includes(items, v) == \E k \in 1..Len(items) : items[k] = v

\* The injected block with the second includes() test left out.
InjectedBlockRunWithoutSecondTest(coll, env, cfg, requireWorks) ==
    IF ~requireWorks \/ ~coll.isArray
    THEN coll
    ELSE LET afterEnv == IF env.kind = "string" /\ env.text # "" /\ ~Includes(coll.items, env.text)
                         THEN Append(coll.items, env.text)
                         ELSE coll.items
         IN  ArrayOf(IF cfg.kind = "string" THEN Append(afterEnv, cfg.text) ELSE afterEnv)

\* One execution of the block of injectionCode on the array `coll`.  An
\* exception (require is not defined, includes on something that is no array,
\* JSON.parse) is swallowed by the catch clauses and ends the part it is in.
InjectedBlockRun(coll, env, cfg, requireWorks) ==
    IF ~requireWorks \/ ~coll.isArray
    THEN coll
    ELSE LET afterEnv == IF env.kind = "string" /\ env.text # "" /\ ~Includes(coll.items, env.text)
                         THEN Append(coll.items, env.text)
                         ELSE coll.items
         IN  ArrayOf(IF cfg.kind = "string" /\ ~Includes(afterEnv, cfg.text)
                     THEN Append(afterEnv, cfg.text)
                     ELSE afterEnv)

\* The names the injected blocks of a tree append to.
InjectedNames(body) ==
    {body[i].collection : i \in {j \in 1..Len(body) : body[j].type = "TryStatement"}}

\* Module evaluation of the returned text: every injected block for `name`
\* runs once, in source order.
RunInjectedBlocks ==
    /\ pc = "done"
    /\ result.kind = "text"
    /\ runtime = NoRuntime
    /\ \E name \in InjectedNames(result.text.tree), env \in EnvValues,
          cfg \in CfgValues, requireWorks \in BOOLEAN :
          LET before == ArrayValue(result.text.tree, name)
              blocks == Cardinality({i \in 1..Len(result.text.tree) :
                                        result.text.tree[i] = InjectionTry(name)})
              once == InjectedBlockRun(before, env, cfg, requireWorks)
          IN  runtime' = [kind |-> "injection", name |-> name, env |-> env, cfg |-> cfg,
                          blocks |-> blocks, before |-> before,
                          after |-> IF blocks > 1
                                    THEN InjectedBlockRun(once, env, cfg, requireWorks)
                                    ELSE once]
    /\ pc' = "ran"
    /\ UNCHANGED <<content, ast, astBefore, fxeFuncName, c2VarName, feIVarName,
                   outcome, c2Used, rweSearched, result, previous, run>>
    /\ UNCHANGED <<editVars, scan, version, welcome, banner>>

Next ==
    \/ Beautify
    \/ Parse
    \/ ApplyC2Extension
    \/ ApplyFxeFunction
    \/ ApplyRWeFunction
    \/ ApplySchemaChanges
    \/ ApplyRemoveFeIEntries
    \/ ApplyModelMenuComputation
    \/ ApplyCommanderModelOption
    \/ Generate
    \/ Rerun
    \/ RunMenuComputation
    \/ RunInjectedBlocks

Spec == Init /\ [][Next]_vars

\* ------------------------------------- writeModelExtensions (textual)
\* The edit applier at the end of the textual realization: the batch is
\* sorted by descending start offset and applied edit by edit to the text.
\* A text is a sequence of characters; offsets count from 0.

\* Length of the text the edits are located in.
MaxTextLen == 3
\* Edits in one batch.
MaxEdits == 2

Alphabet == <<"a", "b", "c", "d", "e", "f">>

OldFiles == {[i \in 1..MaxTextLen |-> Alphabet[((i - 1) % Len(Alphabet)) + 1]]}

NewContents == {<<>>, <<"X">>, <<"Y", "Z">>}

ModificationEdit(startIndex, endIndex, newContent) ==
    [startIndex |-> startIndex, endIndex |-> endIndex, newContent |-> newContent]

\* Every range of the text, startIndex <= endIndex, with every new content.
EditsOf(file) ==
    UNION {{ModificationEdit(s, e, c) : e \in s..Len(file), c \in NewContents} :
              s \in 0..Len(file)}

Min(a, b) == IF a < b THEN a ELSE b

\* String.prototype.slice(a, b) for 0 <= a, b: both ends are clamped to the
\* length, and an end before the start gives the empty string.
Slice(s, a, b) == SubSeq(s, Min(a, Len(s)) + 1, Min(b, Len(s)))

\* newFile.slice(0, startIndex) + newContent + newFile.slice(endIndex)
ApplyEdit(file, edit) ==
    Slice(file, 0, edit.startIndex) \o edit.newContent \o Slice(file, edit.endIndex, Len(file))

\* edits.sort((a, b) => b.startIndex - a.startIndex): a stable sort, so
\* edits with equal start offsets keep their order.
RECURSIVE SortEdits(_)
SortEdits(es) ==
    IF es = <<>> THEN <<>>
    ELSE LET rest == SortEdits(Tail(es))
             k == Cardinality({j \in 1..Len(rest) :
                                  rest[j].startIndex > Head(es).startIndex})
         IN  SubSeq(rest, 1, k) \o <<Head(es)>> \o SubSeq(rest, k + 1, Len(rest))

\* for (const edit of edits) newFile = ...
RECURSIVE ApplyAll(_, _)
ApplyAll(file, es) ==
    IF es = <<>> THEN file ELSE ApplyAll(ApplyEdit(file, Head(es)), Tail(es))

\* findModelExtensionLocations: null when parseSync throws, null when the
\* collection, the predicate function or the schema use is not found.
LocationResults == {"parse-failed", "missing", "found"}

Batches(file) == UNION {[1..n -> EditsOf(file)] : n \in 0..MaxEdits}

InitEdits ==
    /\ content = NoText
    /\ pc = "edits"
    /\ ast = <<>>
    /\ astBefore = <<>>
    /\ fxeFuncName = NULL
    /\ c2VarName = NULL
    /\ feIVarName = NULL
    /\ outcome = NotAttempted
    /\ c2Used = Unbound
    /\ rweSearched = FALSE
    /\ result = Returned("none", NoText)
    /\ previous = NotAttempted
    /\ run = 1
    /\ oldFile \in OldFiles
    /\ located \in LocationResults
    /\ edits \in Batches(oldFile)
    /\ newFile = Produced("none", <<>>)
    /\ AuxIdle

\* Lines 398-402: no locations, no output.  Lines 615-624: sort the batch,
\* apply every edit.
ApplyEdits ==
    /\ pc = "edits"
    /\ newFile.kind = "none"
    /\ IF located = "found"
       THEN /\ edits' = SortEdits(edits)
            /\ newFile' = Produced("text", ApplyAll(oldFile, SortEdits(edits)))
       ELSE /\ newFile' = Produced("null", <<>>)
            /\ UNCHANGED edits
    /\ UNCHANGED <<oldFile, located, treeVars, auxVars>>

NextEdits == ApplyEdits

SpecEdits == InitEdits /\ [][NextEdits]_vars

\* Both realizations: a behaviour is a run of either.
InitAll == Init \/ InitEdits

NextAll == Next \/ NextEdits

SpecAll == InitAll /\ [][NextAll]_vars

\* ----------------------- findModelExtensionLocations: the schema uses
\* The nodes visitNode meets that matter to the schema uses, in source order:
\* the declarator of the collection, and key-value properties whose value is
\* a call.  `shaped`: the text of the value includes the collection's name and
\* ".optional()".
MaxItems == 3

CollectionItem == [kind |-> "collection", key |-> "", shaped |-> FALSE]

PropertyItem(key, shaped) == [kind |-> "property", key |-> key, shaped |-> shaped]

ScanItems ==
    {CollectionItem}
        \cup {PropertyItem(k, b) : k \in {"model", "selectedModel", "theme"}, b \in BOOLEAN}

Sources == UNION {[1..n -> ScanItems] : n \in 1..MaxItems}

\* locations: c2Array is found or not; a use is the position of the property
\* whose value span was recorded, 0 when none was.
NoLocations == [c2Array |-> FALSE, schemaModelUse |-> 0, schemaSelectedModelUse |-> 0]

\* visitNode on item k: nothing is recorded once schemaModelUse is set, for
\* either property name.
VisitItem(items, k, locations) ==
    IF items[k].kind = "collection"
    THEN [locations EXCEPT !.c2Array = TRUE]
    ELSE IF /\ locations.c2Array
            /\ items[k].key \in {"model", "selectedModel"}
            /\ locations.schemaModelUse = 0
            /\ items[k].shaped
    THEN IF items[k].key = "model"
         THEN [locations EXCEPT !.schemaModelUse = k]
         ELSE [locations EXCEPT !.schemaSelectedModelUse = k]
    ELSE locations

RECURSIVE VisitItems(_, _, _)
VisitItems(items, k, locations) ==
    IF k > Len(items) THEN locations
    ELSE VisitItems(items, k + 1, VisitItem(items, k, locations))

\* The positions whose value an edit replaces by Ql().optional().
SchemaEdits(locations) ==
    {locations.schemaModelUse, locations.schemaSelectedModelUse} \ {0}

\* The textual writeModelExtensions as far as the schema uses go, the other
\* finders taken to succeed: null when the collection or the model use is
\* missing, else one edit per recorded use.
LocateSchemaUses ==
    /\ pc = "locate"
    /\ scan.kind = "source"
    /\ LET locations == VisitItems(scan.items, 1, NoLocations)
       IN  scan' = [kind |-> IF locations.c2Array /\ locations.schemaModelUse # 0
                             THEN "rewritten" ELSE "null",
                    items |-> scan.items,
                    locations |-> locations,
                    replaced |-> IF locations.c2Array /\ locations.schemaModelUse # 0
                                 THEN SchemaEdits(locations) ELSE {}]
    /\ UNCHANGED <<treeVars, editVars, runtime, version, welcome, banner>>

InitLocate ==
    /\ PatcherIdle("locate")
    /\ runtime = NoRuntime
    /\ scan \in {[kind |-> "source", items |-> src, locations |-> NoLocations,
                  replaced |-> {}] : src \in Sources}
    /\ version = Idle
    /\ welcome = Idle
    /\ banner = Idle

NextLocate == LocateSchemaUses

SpecLocate == InitLocate /\ [][NextLocate]_vars

\* ------------------------------------------------- writeVersionOutput
\* The file as a sequence of pieces: "version" is a match of versionPattern,
\* "session" a match of sessionIdPattern, "chalk" what findChalkVar finds,
\* "other" any other text; "afterburner" and "status" are the two texts
\* writeVersionOutput builds, carrying the afterburner version.
MaxPieces == 4

Piece(t, v) == [t |-> t, v |-> v]

FilePieces == {Piece(t, "") : t \in {"version", "session", "chalk", "other"}}

AfterburnerVersions == {"1.0.0", "1.1.0"}

FileContents == UNION {[1..n -> FilePieces] : n \in 1..MaxPieces}

\* String.prototype.match without the g flag: the first match, 0 for none.
FirstMatch(fileContents, t) ==
    IF \E i \in 1..Len(fileContents) : fileContents[i].t = t
    THEN CHOOSE i \in 1..Len(fileContents) :
            /\ fileContents[i].t = t
            /\ \A j \in 1..(i - 1) : fileContents[j].t # t
    ELSE 0

\* findVersionOutputLocation: null (found FALSE) unless both patterns
\* match; the version location is the match, the session location the empty
\* range at the end of the match.
findVersionOutputLocation(fileContents) ==
    LET versionMatch == FirstMatch(fileContents, "version")
        sessionIdMatch == FirstMatch(fileContents, "session")
    IN  IF versionMatch = 0 \/ sessionIdMatch = 0
        THEN [found |-> FALSE]
        ELSE [found |-> TRUE,
              versionLocation |-> [startIndex |-> versionMatch - 1, endIndex |-> versionMatch],
              sessionIdLocation |-> [startIndex |-> sessionIdMatch, endIndex |-> sessionIdMatch]]

\* newText is the original version text followed by the afterburner line.
NewText(afterburnerVersion) ==
    <<Piece("version", ""), Piece("afterburner", afterburnerVersion)>>

NewStatusInfo(afterburnerVersion) == <<Piece("status", afterburnerVersion)>>

\* newFileContents1 is built and shown, newFileContents2 is built from
\* fileContents and returned.
writeVersionOutput(fileContents, afterburnerVersion) ==
    LET locations == findVersionOutputLocation(fileContents)
    IN  IF ~locations.found THEN [kind |-> "null"]
        ELSE LET newFileContents1 ==
                     Slice(fileContents, 0, locations.versionLocation.startIndex)
                         \o NewText(afterburnerVersion)
                         \o Slice(fileContents, locations.versionLocation.endIndex,
                                  Len(fileContents))
                 newFileContents2 ==
                     Slice(fileContents, 0, locations.sessionIdLocation.startIndex)
                         \o NewStatusInfo(afterburnerVersion)
                         \o Slice(fileContents, locations.sessionIdLocation.endIndex,
                                  Len(fileContents))
             IN  IF FirstMatch(fileContents, "chalk") = 0 THEN [kind |-> "null"]
                 ELSE [kind |-> "text", shown |-> newFileContents1,
                       text |-> newFileContents2]

WriteVersion ==
    /\ pc = "version"
    /\ version.kind = "input"
    /\ version' = [kind |-> "returned",
                   fileContents |-> version.fileContents,
                   afterburnerVersion |-> version.afterburnerVersion,
                   result |-> writeVersionOutput(version.fileContents,
                                                 version.afterburnerVersion)]
    /\ UNCHANGED <<treeVars, editVars, runtime, scan, welcome, banner>>

InitVersion ==
    /\ PatcherIdle("version")
    /\ runtime = NoRuntime
    /\ scan = Idle
    /\ version \in {[kind |-> "input", fileContents |-> f, afterburnerVersion |-> v,
                     result |-> [kind |-> "none"]] :
                        f \in FileContents, v \in AfterburnerVersions}
    /\ welcome = Idle
    /\ banner = Idle

NextVersion == WriteVersion

SpecVersion == InitVersion /\ [][NextVersion]_vars

\* ------------------------------------------------- writeWelcomeMessage
\* The file as pieces of the anchor pattern
\*   " Welcome to ",X.createElement(  [^,]+  ,{bold:!0},  "Github Copilot"  ),"!"
\* "open", "bold" and "close" are its fixed parts (each holds a comma),
\* "copilot" is the literal "Github Copilot", "arg" is text without a comma
\* or the literal, "other" is text with a comma.
MaxChunks == 4

WelcomePiece(t) == Piece(t, "")

Anchor(arg) ==
    <<WelcomePiece("open"), WelcomePiece(arg), WelcomePiece("bold"),
      WelcomePiece("copilot"), WelcomePiece("close")>>

\* What a file is put together from: single pieces and whole anchors, the
\* component argument being plain or itself the literal.
Chunks ==
    {<<WelcomePiece(t)>> : t \in {"open", "arg", "bold", "copilot", "close", "other"}}
        \cup {Anchor("arg"), Anchor("copilot")}

RECURSIVE Flatten(_)
Flatten(chunks) ==
    IF chunks = <<>> THEN <<>> ELSE Head(chunks) \o Flatten(Tail(chunks))

WelcomeFiles == {Flatten(c) : c \in UNION {[1..n -> Chunks] : n \in 1..MaxChunks}}

CustomTexts == {"Afterburner", "Github Copilot"}

\* [^,]+ runs from piece i up to the first piece holding a comma.
RunEnd(file, i) ==
    IF \E j \in i..Len(file) : file[j].t \notin {"arg", "copilot"}
    THEN CHOOSE j \in i..Len(file) :
            /\ file[j].t \notin {"arg", "copilot"}
            /\ \A h \in i..(j - 1) : file[h].t \in {"arg", "copilot"}
    ELSE Len(file) + 1

\* The pattern matches at piece i.
MatchesAt(file, i) ==
    LET j == RunEnd(file, i + 1)
    IN  /\ file[i].t = "open"
        /\ j > i + 1
        /\ j + 2 <= Len(file)
        /\ file[j].t = "bold"
        /\ file[j + 1].t = "copilot"
        /\ file[j + 2].t = "close"

\* The index of the rightmost match, as a search from the end would give.
LastAnchorMatch(file) ==
    IF \E i \in 1..Len(file) : MatchesAt(file, i)
    THEN CHOOSE i \in 1..Len(file) :
            MatchesAt(file, i) /\ \A h \in (i + 1)..Len(file) : ~MatchesAt(file, h)
    ELSE 0

\* oldFile.match(pattern): the index of the leftmost match, 0 for none.
FirstAnchorMatch(file) ==
    IF \E i \in 1..Len(file) : MatchesAt(file, i)
    THEN CHOOSE i \in 1..Len(file) :
            MatchesAt(file, i) /\ \A h \in 1..(i - 1) : ~MatchesAt(file, h)
    ELSE 0

\* getWelcomeMessageLocation: the first occurrence of the literal within
\* the match, as a range of pieces (startIndex, endIndex as for slice).
getWelcomeMessageLocation(oldFile_) ==
    LET match == FirstAnchorMatch(oldFile_)
    IN  IF match = 0 THEN [found |-> FALSE]
        ELSE LET CopilotIndex ==
                     CHOOSE k \in match..Len(oldFile_) :
                        /\ oldFile_[k].t = "copilot"
                        /\ \A h \in match..(k - 1) : oldFile_[h].t # "copilot"
             IN  [found |-> TRUE, startIndex |-> CopilotIndex - 1,
                  endIndex |-> CopilotIndex]

\* `"${customText}"`; quoting the text Github Copilot gives the literal.
Quoted(customText) ==
    IF customText = "Github Copilot" THEN WelcomePiece("copilot")
    ELSE Piece("quoted", customText)

writeWelcomeMessage(oldFile_, customText) ==
    LET location == getWelcomeMessageLocation(oldFile_)
    IN  IF ~location.found THEN [kind |-> "null"]
        ELSE [kind |-> "text",
              text |-> Slice(oldFile_, 0, location.startIndex)
                           \o <<Quoted(customText)>>
                           \o Slice(oldFile_, location.endIndex, Len(oldFile_))]

WriteWelcome ==
    /\ pc = "welcome"
    /\ welcome.kind = "input"
    /\ welcome' = [kind |-> "returned",
                   oldFile |-> welcome.oldFile,
                   customText |-> welcome.customText,
                   result |-> writeWelcomeMessage(welcome.oldFile, welcome.customText)]
    /\ UNCHANGED <<treeVars, editVars, runtime, scan, version, banner>>

InitWelcome ==
    /\ PatcherIdle("welcome")
    /\ runtime = NoRuntime
    /\ scan = Idle
    /\ version = Idle
    /\ welcome \in {[kind |-> "input", oldFile |-> f, customText |-> c,
                     result |-> [kind |-> "none"]] : f \in WelcomeFiles, c \in CustomTexts}
    /\ banner = Idle

NextWelcome == WriteWelcome

SpecWelcome == InitWelcome /\ [][NextWelcome]_vars

\* -------------------------------------------------------- Banner
\* generateFrames always ends by pushing the final frame, so there is at
\* least one frame; the component is followed for 1..MaxFrames frames.
MaxFrames == 5

MaxRerenders == 2

\* Math.min(Math.max(currentFrame, startFrame), frames.length - 1) without
\* the inner clamp from above.
FrameIndexUnclamped(currentFrame, showLoading, length) ==
    IF currentFrame >= (IF showLoading THEN 0 ELSE 3) THEN currentFrame
    ELSE (IF showLoading THEN 0 ELSE 3)

\* Math.min(Math.max(currentFrame, startFrame), frames.length - 1)
FrameIndex(currentFrame, showLoading, length) ==
    LET startFrame == IF showLoading THEN 0 ELSE 3
        atLeast == IF currentFrame >= startFrame THEN currentFrame ELSE startFrame
    IN  IF atLeast <= length - 1 THEN atLeast ELSE length - 1

\* The state after useState(0), useState(false), before the first render.
\* timer: the timeout of the last effect is pending or not; stale: a render
\* is due; effectDue: the effect of the last render has not run yet;
\* rendered: the index of the frame last rendered, -1 before any render;
\* firings counts the timer callbacks run.
Mounted(length, showLoading) ==
    [kind |-> "mounted", length |-> length, showLoading |-> showLoading,
     currentFrame |-> 0, isComplete |-> FALSE, timer |-> FALSE,
     stale |-> TRUE, effectDue |-> FALSE, rendered |-> -1,
     firings |-> 0, rerenders |-> 0]

BannerFrame == UNCHANGED <<treeVars, editVars, runtime, scan, version, welcome>>

\* One run of the component function.  frames is a new array in every
\* render, so the effect's dependencies always differ and it is run again.
Render ==
    /\ pc = "banner"
    /\ banner.kind = "mounted"
    /\ banner.stale
    /\ ~banner.effectDue
    /\ banner' = [banner EXCEPT
            !.stale = FALSE,
            !.effectDue = TRUE,
            !.rendered = IF banner.isComplete THEN banner.length - 1
                         ELSE FrameIndex(banner.currentFrame, banner.showLoading,
                                         banner.length)]
    /\ BannerFrame

\* The cleanup of the previous effect (clearTimeout), then the effect.
\* setIsComplete(true) on a state that is already true asks for no render.
RunEffect ==
    /\ pc = "banner"
    /\ banner.kind = "mounted"
    /\ banner.effectDue
    /\ IF banner.currentFrame >= banner.length
       THEN banner' = [banner EXCEPT
                !.effectDue = FALSE,
                !.timer = FALSE,
                !.isComplete = TRUE,
                !.stale = banner.stale \/ ~banner.isComplete]
       ELSE banner' = [banner EXCEPT !.effectDue = FALSE, !.timer = TRUE]
    /\ BannerFrame

\* The timeout's callback: setCurrentFrame(prev => prev + 1).
TimerFires ==
    /\ pc = "banner"
    /\ banner.kind = "mounted"
    /\ banner.timer
    /\ banner' = [banner EXCEPT
            !.timer = FALSE,
            !.currentFrame = banner.currentFrame + 1,
            !.firings = banner.firings + 1,
            !.stale = TRUE]
    /\ BannerFrame

\* The parent renders the component again.
ParentRenders ==
    /\ pc = "banner"
    /\ banner.kind = "mounted"
    /\ banner.rerenders < MaxRerenders
    /\ banner' = [banner EXCEPT !.stale = TRUE, !.rerenders = banner.rerenders + 1]
    /\ BannerFrame

\* Unmounting runs the last effect's cleanup.
Unmount ==
    /\ pc = "banner"
    /\ banner.kind = "mounted"
    /\ banner' = [banner EXCEPT !.kind = "unmounted", !.timer = FALSE,
                                !.stale = FALSE, !.effectDue = FALSE]
    /\ BannerFrame

InitBanner ==
    /\ PatcherIdle("banner")
    /\ runtime = NoRuntime
    /\ scan = Idle
    /\ version = Idle
    /\ welcome = Idle
    /\ banner \in {Mounted(n, l) : n \in 1..MaxFrames, l \in BOOLEAN}

NextBanner == Render \/ RunEffect \/ TimerFires \/ ParentRenders \/ Unmount

\* React runs a due render and a due effect, and a pending timeout fires.
SpecBanner ==
    /\ InitBanner
    /\ [][NextBanner]_vars
    /\ WF_vars(Render)
    /\ WF_vars(RunEffect)
    /\ WF_vars(TimerFires)

\* ------------------------------------------------------------ properties
Attempted(p) == outcome[p] # "NotAttempted"

\* C1: a run over an input that parses never ends by throwing; a patch that
\* meets a shape it cannot handle reports failure and the run goes on to
\* return a string or null.
C1_NoPatchFailureEscapes ==
    /\ result.kind # "throw"
    /\ \A p \in Patches : outcome[p] # "Threw"

\* The calls of the Patch-D shape on the collection name in a tree.
MatchingCalls(body, name) == Cardinality(SchemaTargets(body, name))

\* C2: when the number of calls f(X).optional() on the bound collection name
\* is not exactly two, the schema patch reports failure and leaves the tree
\* as it was before the patch.
C2_WrongCountLeavesTreeUnchanged ==
    (/\ pc = "patch5"
     /\ c2VarName # NULL
     /\ MatchingCalls(astBefore, c2VarName) # 2)
    => (outcome["SchemaChanges"] = "Failed" /\ ast = astBefore)

\* C3: when the input parses and the final tree serializes, the run returns a
\* text whatever the patches reported; when Patch A's sentinels are absent the
\* patches that do not depend on Patch A have still been attempted.
C3_ParsedAndSerializableReturnsText ==
    (/\ pc \in {"done", "threw"}
     /\ content.syntax = "ok"
     /\ Serializes(ast))
    => /\ result.kind = "text"
       /\ outcome["C2Extension"] = "Failed"
             => /\ Attempted("FxeFunction")
                /\ Attempted("RemoveFeIEntries")
                /\ Attempted("CommanderModelOption")

\* C4: every patch that works with the collection name works with the name
\* Patch A's finder bound; no later patch works with another declaration's.
C4_OneCollectionName ==
    \A p \in CollectionUsers : c2Used[p] # NULL => c2Used[p] = c2Used["C2Extension"]

\* C5: Patch F applies only when both the collection name and the Patch-B
\* function name are bound; no menu computation that refers to an unbound
\* (null) name is ever in the tree.
C5_MenuNeedsBothBindings ==
    /\ outcome["ModelMenuComputation"] = "Applied"
          => (c2VarName # NULL /\ fxeFuncName # NULL)
    /\ \A u \in SplicedMenuUses(ast) : u.collection # NULL /\ u.predicate # NULL

\* C6: when Patch A bound no collection name or no Patch-B function name is
\* bound, Patch C reports failure, has not called its function finder and has
\* left the tree as it was.
C6_RWeSkippedWithoutBindings ==
    (/\ pc = "patch4"
     /\ (outcome["C2Extension"] = "Failed" \/ fxeFuncName = NULL))
    => /\ outcome["RWeFunction"] = "Failed"
       /\ ~rweSearched
       /\ ast = astBefore

\* Patch C has run with the collection bound and no function name bound, on
\* a tree that holds a function its finder would match.
C6_Witness ==
    /\ pc = "patch4"
    /\ outcome["C2Extension"] = "Applied"
    /\ fxeFuncName = NULL
    /\ FindRWeReference(ast, c2Used["C2Extension"]) # 0

\* The injected append blocks for the collection name in a tree.
InjectedBlocks(body, name) ==
    Cardinality({i \in 1..Len(body) : body[i] = InjectionTry(name)})

\* C7: a second run over the output of a run in which Patch A applied returns
\* a text in which the collection has exactly one injected append block.
C7_NoDoubleInsert ==
    (/\ run > 1
     /\ pc = "done"
     /\ result.kind = "text"
     /\ previous["C2Extension"] = "Applied")
    => InjectedBlocks(result.text.tree, c2Used["C2Extension"]) = 1

\* C8: in a run over the output of a run in which Patch B applied, Patch B
\* reports failure: its finder does not match the function it produced.
C8_FxeNotFoundOnRerun ==
    (/\ run > 1
     /\ previous["FxeFunction"] = "Applied"
     /\ Attempted("FxeFunction"))
    => outcome["FxeFunction"] = "Failed"

\* C8, as the code has it: in a run over the output of a run in which Patch B
\* applied, Patch B's finder matches the function Patch B produced, the patch
\* reports success, and the function it puts in place is the one it found, so
\* the tree is as it was before the patch.
C8_FxeReappliedUnchanged ==
    (/\ run > 1
     /\ previous["FxeFunction"] = "Applied"
     /\ Attempted("FxeFunction"))
    => /\ outcome["FxeFunction"] = "Applied"
       /\ pc = "patch3" => ast = astBefore

\* Patch B has just run a second time, over the function it produced.
C8_Witness ==
    /\ run > 1
    /\ pc = "patch3"
    /\ previous["FxeFunction"] = "Applied"
    /\ outcome["FxeFunction"] = "Applied"
    /\ \E i \in 1..Len(ast) :
          /\ ast[i].type = "FunctionDeclaration"
          /\ ast[i] = NewFxeFunction(ast[i].id.name, ast[i].params)

\* The tree with the function wrapped by every f(X).optional() renamed to
\* `to`: a renaming of the input's identifiers that leaves the others alone.
RenameWrapped(body, to) ==
    LET prop(pr) == IF /\ pr.value.type = "CallExpression"
                       /\ pr.value.callee.type = "MemberExpression"
                       /\ pr.value.callee.object.type = "CallExpression"
                       /\ Len(pr.value.callee.object.arguments) = 1
                    THEN [pr EXCEPT !.value.callee.object.callee.name = to]
                    ELSE pr
        decl(dc) == IF dc.init.type = "ObjectExpression"
                    THEN [dc EXCEPT !.init.properties =
                             [p \in 1..Len(dc.init.properties) |-> prop(dc.init.properties[p])]]
                    ELSE dc
        stmt(st) == IF st.type = "VariableDeclaration"
                    THEN [st EXCEPT !.declarations =
                             [d \in 1..Len(st.declarations) |-> decl(st.declarations[d])]]
                    ELSE st
    IN  [i \in 1..Len(body) |-> stmt(body[i])]

\* Names no input uses.
FreshNames == {"Q7", "validateEnum"}

\* C9: renaming the wrapped function of the schema calls does not change
\* which calls Patch D matches, whatever the length of the new name.
C9_SchemaMatchIgnoresWrappedName ==
    (pc = "patch5" /\ c2VarName # NULL)
    => \A to \in FreshNames :
          MatchingCalls(RenameWrapped(astBefore, to), c2VarName)
             = MatchingCalls(astBefore, c2VarName)

\* Two edits of the batch replace a common character of the text.
HasOverlap(es) ==
    \E i, j \in 1..Len(es) :
       /\ i # j
       /\ es[i].startIndex < es[j].endIndex
       /\ es[j].startIndex < es[i].endIndex

\* C10: the edit applier produces no text for a batch in which two edits
\* overlap.
C10_OverlapRejected ==
    (newFile.kind # "none" /\ located = "found" /\ HasOverlap(edits))
    => newFile.kind = "null"

\* The new contents of the zero-length edits at offset p among the first k
\* edits of the batch, the later edit's content first.
RECURSIVE InsertedAt(_, _, _)
InsertedAt(es, p, k) ==
    IF k = 0 THEN <<>>
    ELSE (IF es[k].startIndex = p /\ es[k].endIndex = p THEN es[k].newContent ELSE <<>>)
         \o InsertedAt(es, p, k - 1)

\* The original text from offset p on with every range of the batch replaced
\* by its new content at once: what is inserted at p, then either the
\* content of the edit that replaces the characters from p on, or the
\* character at p.
RECURSIVE Substituted(_, _, _)
Substituted(file, es, p) ==
    LET reps == {k \in 1..Len(es) : es[k].startIndex = p /\ es[k].endIndex > p}
        k0 == First(reps)
    IN  InsertedAt(es, p, Len(es))
        \o (IF reps # {} THEN es[k0].newContent \o Substituted(file, es, es[k0].endIndex)
            ELSE IF p >= Len(file) THEN <<>>
            ELSE <<file[p + 1]>> \o Substituted(file, es, p + 1))

\* C11: for a batch of pairwise non-overlapping edits, a zero-length
\* insertion at the start offset of another edit included, applying the edits
\* in descending start offset gives the original text with all ranges
\* substituted at once.
C11_DescendingEqualsSimultaneous ==
    (newFile.kind = "text" /\ ~HasOverlap(edits))
    => newFile.chars = Substituted(oldFile, edits, 0)

\* node is f(X).optional() for some identifier f: the Patch-D shape as the
\* specification states it, whatever the spelling of f.
HasPatchDShape(node, X) ==
    /\ node.type = "CallExpression"
    /\ node.callee.type = "MemberExpression"
    /\ node.callee.property = "optional"
    /\ node.callee.object.type = "CallExpression"
    /\ node.callee.object.callee.type = "Identifier"
    /\ Len(node.callee.object.arguments) = 1
    /\ node.callee.object.arguments[1] = Ident(X)

ShapeCalls(body, X) == {q \in PropPositions(body) : HasPatchDShape(PropAt(body, q).value, X)}

\* C12: with exactly two calls f(X).optional() on the collection name X that
\* Patch A bound, and the validator name V bound, Patch D applies and both
\* calls have become V().optional() with no argument; every other property,
\* a call of the same shape on another identifier included, is as it was.
C12_SchemaRewritesExactlyTheTwoUses ==
    (/\ pc = "patch5"
     /\ c2Used["C2Extension"] # NULL
     /\ Cardinality(ShapeCalls(astBefore, c2Used["C2Extension"])) = 2
     /\ FindQlReference(astBefore) # NULL)
    => /\ outcome["SchemaChanges"] = "Applied"
       /\ \A q \in PropPositions(astBefore) :
             IF q \in ShapeCalls(astBefore, c2Used["C2Extension"])
             THEN PropAt(ast, q).value = OptionalCall(FindQlReference(astBefore), <<>>)
             ELSE PropAt(ast, q) = PropAt(astBefore, q)

\* C13: in a run whose input parses and in which Patch A's finder fails,
\* Patch C and Patch D report failure, and Patch E and Patch G are attempted
\* and report success whenever the input holds their targets.
C13_IndependentPatchesStillSucceed ==
    (/\ pc \in {"done", "threw"}
     /\ content.syntax = "ok"
     /\ outcome["C2Extension"] = "Failed")
    => /\ outcome["RWeFunction"] = "Failed"
       /\ outcome["SchemaChanges"] = "Failed"
       /\ Attempted("RemoveFeIEntries")
       /\ Attempted("CommanderModelOption")
       /\ ApplyRemoveFeIEntriesPatch(content.tree).foundFeIVarName
             => outcome["RemoveFeIEntries"] = "Applied"
       /\ ApplyCommanderModelOptionPatch(content.tree).ok
             => outcome["CommanderModelOption"] = "Applied"

PatchOrder ==
    <<"C2Extension", "FxeFunction", "RWeFunction", "SchemaChanges",
      "RemoveFeIEntries", "ModelMenuComputation", "CommanderModelOption">>

\* A step of one run reports at most the outcome of the next patch in the
\* order, and no reported outcome changes afterwards.
OrderedStep ==
    run' = run =>
       \A i \in 1..Len(PatchOrder) :
          /\ outcome[PatchOrder[i]] # "NotAttempted"
                => outcome'[PatchOrder[i]] = outcome[PatchOrder[i]]
          /\ outcome'[PatchOrder[i]] # outcome[PatchOrder[i]]
                => /\ \A j \in 1..(i - 1) : outcome[PatchOrder[j]] # "NotAttempted"
                   /\ \A j \in (i + 1)..Len(PatchOrder) :
                         outcome'[PatchOrder[j]] = "NotAttempted"

\* The run is over and it got past parsing.
RunEndedPastParsing ==
    pc \in {"done", "threw"} /\ content.syntax = "ok"

\* C14: in a run that gets past parsing the seven patches are attempted one
\* after the other in the fixed order, each once, none retried, and when the
\* run is over each of them has reported an outcome.
C14_EachPatchOnceInOrder ==
    /\ [][OrderedStep]_vars
    /\ [](RunEndedPastParsing => \A p \in Patches : outcome[p] \in {"Applied", "Failed"})

\* The part of C14 about order and retries alone.
C14_OrderAndNoRetry == [][OrderedStep]_vars

\* C15: when the input cannot be beautified or parsed the run is over with
\* null returned, no patch attempted and no tree built, and never by a throw;
\* when the final tree cannot be printed the run returns null; the textual
\* realization returns null when its input cannot be parsed.
C15_FatalFailuresReturnNull ==
    /\ content.syntax # "ok"
          => /\ pc \in {"beautify", "parse", "done"}
             /\ outcome = NotAttempted
             /\ ast = <<>>
             /\ pc = "done" => result.kind = "null"
    /\ (pc = "done" /\ content.syntax = "ok" /\ ~Serializes(ast))
          => result.kind = "null"
    /\ (newFile.kind # "none" /\ located = "parse-failed")
          => newFile.kind = "null"

\* A run over an input that holds every patch target and does not parse has
\* ended.
C15_Witness ==
    /\ pc = "done"
    /\ content.syntax = "parse-fails"
    /\ content.tree = Fixture
    /\ result.kind = "null"

\* C16: when the input's first line is an interpreter directive, the first
\* line of the returned text is that same line, character for character.
C16_ShebangRestoredVerbatim ==
    (pc = "done" /\ result.kind = "text" /\ content.shebang # "")
        => result.text.shebang = content.shebang

\* Statement `stmt` declares the variable `name`.
Declares(stmt, name) ==
    /\ stmt.type = "VariableDeclaration"
    /\ \E d \in 1..Len(stmt.declarations) :
          /\ stmt.declarations[d].id.type = "Identifier"
          /\ stmt.declarations[d].id.name = name

\* `after` is `before` with one statement put directly behind position i.
OneInsertedAfter(before, after, i) ==
    /\ Len(after) = Len(before) + 1
    /\ \A j \in 1..i : after[j] = before[j]
    /\ \A j \in (i + 1)..Len(before) : after[j + 1] = before[j]

\* C17: after Patch A applies, the top-level statement list is the original
\* list with exactly one statement inserted directly after the statement that
\* declares the collection; every original statement is unchanged and in its
\* place, and the inserted block names the collection by the bound name.
C17_PatchAInsertsOneBlockAfterDeclaration ==
    (pc = "patch2" /\ outcome["C2Extension"] = "Applied")
        => \E i \in 1..Len(astBefore) :
              /\ Declares(astBefore[i], c2Used["C2Extension"])
              /\ OneInsertedAfter(astBefore, ast, i)
              /\ ast[i + 1].type = "TryStatement"
              /\ ast[i + 1].collection = c2Used["C2Extension"]

\* Patch A has just applied to a tree in which statements follow the
\* declaration of the collection.
C17_Witness ==
    /\ pc = "patch2"
    /\ outcome["C2Extension"] = "Applied"
    /\ \E i \in 1..(Len(astBefore) - 1) :
          /\ Declares(astBefore[i], c2Used["C2Extension"])
          /\ ast[i + 1] = InjectionTry(c2Used["C2Extension"])
          /\ ast[i + 2] = astBefore[i + 1]

\* `after` differs from `before` at position i at most.
OneReplacedAt(before, after, i) ==
    /\ Len(after) = Len(before)
    /\ \A j \in 1..Len(before) : j # i => after[j] = before[j]

\* C18: Patch B replaces the located function in place: same index in the
\* top-level statement list, no other statement changed, and the replacement
\* carries the function name and the parameter list of the original.
C18_PatchBReplacesInPlace ==
    (pc = "patch3" /\ outcome["FxeFunction"] = "Applied")
        => \E i \in 1..Len(astBefore) :
              /\ i = FindFxeFunction(astBefore)
              /\ OneReplacedAt(astBefore, ast, i)
              /\ ast[i].type = "FunctionDeclaration"
              /\ ast[i].id = astBefore[i].id
              /\ ast[i].params = astBefore[i].params

\* Patch B has just replaced a function whose parameters are not called t and
\* e, in a tree with other statements around it.
C18_Witness ==
    /\ pc = "patch3"
    /\ outcome["FxeFunction"] = "Applied"
    /\ \E i \in 2..(Len(astBefore) - 1) :
          /\ i = FindFxeFunction(astBefore)
          /\ ast[i] # astBefore[i]
          /\ ast[i].params = <<Ident("a"), Ident("b")>>

\* The names of a function's parameters.
ParamNames(f) == {f.params[k].name : k \in 1..Len(f.params)}

\* Names the runtime defines everywhere.
RuntimeGlobals == {"Array", "Error", "JSON", "process", "require"}

\* Every identifier the body of f uses without declaring it is a parameter of
\* f, one of the names in `bound`, or a runtime global.
BodyIsClosed(f, bound) ==
    f.body.free \subseteq (ParamNames(f) \cup bound \cup RuntimeGlobals)

\* C19 for Patch B: the function Patch B put in place uses no undeclared
\* identifier besides its preserved parameters, bound names and globals.
C19_FxeBodyIsClosed ==
    (pc = "patch3" /\ outcome["FxeFunction"] = "Applied")
        => BodyIsClosed(ast[FindFxeFunction(astBefore)],
                        {fxeFuncName, c2Used["C2Extension"]})

\* C19 for Patch C: the same of the function Patch C put in place.
C19_RWeBodyIsClosed ==
    (pc = "patch4" /\ outcome["RWeFunction"] = "Applied")
        => BodyIsClosed(ast[FindRWeReference(astBefore, c2Used["RWeFunction"])],
                        {fxeFuncName, c2Used["RWeFunction"]})

\* C19: after Patch B or Patch C replaces a function, every identifier the new
\* body uses without declaring it is one of the function's preserved original
\* parameters, a bound name, or a runtime global, whatever the original
\* parameters were called.
C19_ReplacedBodiesAreClosed == C19_FxeBodyIsClosed /\ C19_RWeBodyIsClosed

\* An array literal whose every element is an object literal with exactly the
\* two string properties label and value.
IsMenuEntriesShape(node) ==
    /\ node.type = "ArrayExpression"
    /\ \A k \in 1..Len(node.elements) :
          /\ node.elements[k].type = "ObjectExpression"
          /\ Len(node.elements[k].keys) = 2
          /\ SeqToSet(node.elements[k].keys) = {"label", "value"}

\* The top-level declarators of such an array with n elements.
MenuArrays(body, n) ==
    {p \in DeclPositions(body) :
        /\ body[p[1]].declarations[p[2]].id.type = "Identifier"
        /\ IsMenuEntriesShape(body[p[1]].declarations[p[2]].init)
        /\ Len(body[p[1]].declarations[p[2]].init.elements) = n}

\* C20: Patch E truncates the first top-level array declaration whose every
\* element is an object with exactly the two string-valued properties label
\* and value and which has exactly three elements: afterwards the array holds
\* only its original first element and the declared name is bound; with no
\* such array the tree is left unchanged and no name is bound.
C20_PatchETruncatesFirstMenuArray ==
    pc = "patch6" =>
        LET S == MenuArrays(astBefore, 3)
            p == FirstPos(S)
            decl == astBefore[p[1]].declarations[p[2]]
        IN  IF S # {}
            THEN /\ outcome["RemoveFeIEntries"] = "Applied"
                 /\ feIVarName = decl.id.name
                 /\ ast = [astBefore EXCEPT ![p[1]].declarations[p[2]].init.elements =
                                               <<decl.init.elements[1]>>]
            ELSE /\ outcome["RemoveFeIEntries"] = "Failed"
                 /\ feIVarName = NULL
                 /\ ast = astBefore

\* The statements whose option constructor is wrapped by .choices(X) with X
\* other than the identifier `name`.
ForeignChoices(body, name) ==
    {i \in 1..Len(body) :
        /\ HasWrappedN6(body[i])
        /\ body[i].expression.arguments[1].callee.property = "choices"
        /\ body[i].expression.arguments[1].arguments # <<Ident(name)>>}

\* C21: Patch G unwraps the call that wraps the option constructor only if
\* that call is .choices(X) with X the name Patch A bound; a .choices call
\* with any other argument is still in place after the patch.
C21_ForeignChoicesLeftInPlace ==
    pc = "generate" =>
        \A i \in ForeignChoices(astBefore, c2Used["C2Extension"]) :
            /\ HasWrappedN6(ast[i])
            /\ ast[i].expression.arguments[1].arguments =
                   astBefore[i].expression.arguments[1].arguments

\* The element counts of the top-level arrays declared under `name`.
ArrayLengths(body, name) ==
    {Len(body[p[1]].declarations[p[2]].init.elements) :
        p \in {q \in DeclPositions(body) :
                  /\ body[q[1]].declarations[q[2]].id.type = "Identifier"
                  /\ body[q[1]].declarations[q[2]].id.name = name
                  /\ body[q[1]].declarations[q[2]].init.type = "ArrayExpression"}}

\* C22: every patch works on the tree as the earlier patches of the run left
\* it. Patch C finds its function at its position in the tree that holds
\* Patch A's block and Patch B's function, and changes that tree at this
\* position only, so the block is still there afterwards; the tree Patch F
\* worked on and left holds the menu array as Patch E truncated it.
C22_FindersSeeMutatedTree ==
    /\ (pc = "patch4" /\ outcome["RWeFunction"] = "Applied")
          => LET i == FindRWeReference(astBefore, c2Used["RWeFunction"])
             IN  /\ i # 0
                 /\ OneReplacedAt(astBefore, ast, i)
                 /\ ast[i].id = astBefore[i].id
                 /\ outcome["C2Extension"] = "Applied"
                       => /\ InjectedBlocks(astBefore, c2Used["C2Extension"]) >= 1
                          /\ InjectedBlocks(ast, c2Used["C2Extension"]) >= 1
    /\ (pc = "patch8" /\ outcome["RemoveFeIEntries"] = "Applied")
          => /\ ArrayLengths(astBefore, feIVarName) = {1}
             /\ ArrayLengths(ast, feIVarName) = {1}

\* Patches A, B, C, E and F have all applied in one run; Patch F has just
\* rewritten the menu computation.
C22_Witness ==
    /\ pc = "patch8"
    /\ run = 1
    /\ \A p \in {"C2Extension", "FxeFunction", "RWeFunction",
                 "RemoveFeIEntries", "ModelMenuComputation"} : outcome[p] = "Applied"
    /\ ast # astBefore
    /\ InjectedBlocks(ast, c2Used["C2Extension"]) = 1

\* C23: the function name handed on as the Patch-B binding is non-null only
\* if Patch B applied, and it is then the name of the function Patch B
\* replaced.
C23_FxeBindingIsPatchBsFunction ==
    (pc = "patch3" /\ fxeFuncName # NULL)
        => /\ outcome["FxeFunction"] = "Applied"
           /\ fxeFuncName = astBefore[FindFxeFunction(astBefore)].id.name

\* The first half of C23 alone: a non-null name implies Patch B applied.
C23_BoundOnlyIfApplied ==
    (pc = "patch3" /\ fxeFuncName # NULL) => outcome["FxeFunction"] = "Applied"

\* The second half of C23 alone: when Patch B applied, the name is that of
\* the function it replaced.
C23_BoundToReplacedFunction ==
    (pc = "patch3" /\ fxeFuncName # NULL /\ outcome["FxeFunction"] = "Applied")
        => fxeFuncName = astBefore[FindFxeFunction(astBefore)].id.name

\* C24: whenever applyModelMenuComputationPatch reports failure, the tree is
\* identical to the tree before the call.
C24_FailedMenuPatchLeavesTreeUnchanged ==
    (pc = "patch8" /\ outcome["ModelMenuComputation"] = "Failed") => ast = astBefore

\* The names of the functions in a tree that are as Patch B writes them.
PatchedFxeNames(body) ==
    {body[i].id.name :
        i \in {j \in 1..Len(body) :
                  /\ body[j].type = "FunctionDeclaration"
                  /\ body[j] = NewFxeFunction(body[j].id.name, body[j].params)}}

\* C25: the menu computation takes its base entries from the list given at
\* run time when that is a non-empty array, otherwise from the Patch-E array
\* when that is a non-empty array, otherwise from the collection Patch A
\* bound; what it returns are the base entries for which the predicate Patch B
\* wrote returned true, and an entry for which it throws is dropped.
C25_MenuEntriesByPriorityAndFiltered ==
    runtime.kind = "menu" =>
        LET tree == result.text.tree
            base == BaseEntries(runtime.models, runtime.menu,
                                ArrayValue(tree, c2Used["C2Extension"]))
        IN  /\ base.kind = "value"
            /\ runtime.out =
                   Value(SelectSeq(base.items, LAMBDA v : runtime.verdict[v] = "pass"))
            /\ runtime.out.items # <<>> => runtime.uses.predicate \in PatchedFxeNames(tree)

\* The number of times v occurs in a sequence.
Occurrences(items, v) == Cardinality({k \in 1..Len(items) : items[k] = v})

\* C26: running the block Patch A injects never creates a duplicate entry in
\* the collection and never removes or reorders existing entries: the
\* collection before is a prefix of the collection after, and what was
\* appended are the environment value and the configuration value, each at
\* most once and only when it is a string that was not present.
C26_InjectedBlockAppendsWithoutDuplicates ==
    (runtime.kind = "injection" /\ runtime.before.isArray) =>
        LET old == runtime.before.items
            new == runtime.after.items
        IN  /\ runtime.after.isArray
            /\ Len(new) >= Len(old)
            /\ SubSeq(new, 1, Len(old)) = old
            /\ \A k \in (Len(old) + 1)..Len(new) :
                  /\ ~Includes(old, new[k])
                  /\ Occurrences(new, new[k]) = 1
                  /\ \/ runtime.env.kind = "string" /\ new[k] = runtime.env.text
                     \/ runtime.cfg.kind = "string" /\ new[k] = runtime.cfg.text

\* The block has run with the environment and the configuration file naming
\* the same model, which the collection did not hold: it was appended once.
C26_Witness ==
    /\ runtime.kind = "injection"
    /\ runtime.before.isArray
    /\ runtime.env = Str("o3")
    /\ runtime.cfg = Str("o3")
    /\ runtime.after.items = Append(runtime.before.items, "o3")

\* The positions of the properties named `key` whose value has the Patch-D
\* shape and which follow the declaration of the collection.
ShapedUses(items, key) ==
    {k \in 1..Len(items) :
        /\ items[k] = PropertyItem(key, TRUE)
        /\ \E c \in 1..(k - 1) : items[c].kind = "collection"}

\* C27: in the textual realization, when the input has the Patch-D shape
\* under a property named model and under a property named selectedModel,
\* both locations are recorded and both values are rewritten, whatever the
\* order of the two properties.
C27_BothSchemaUsesRewritten ==
    (/\ scan.kind \in {"rewritten", "null"}
     /\ ShapedUses(scan.items, "model") # {}
     /\ ShapedUses(scan.items, "selectedModel") # {})
    => /\ scan.kind = "rewritten"
       /\ scan.locations.schemaModelUse \in ShapedUses(scan.items, "model")
       /\ scan.locations.schemaSelectedModelUse \in ShapedUses(scan.items, "selectedModel")
       /\ \E m \in ShapedUses(scan.items, "model"),
             q \in ShapedUses(scan.items, "selectedModel") : {m, q} \subseteq scan.replaced

\* C27 for the order selectedModel before model only.
C27_SelectedModelFirst ==
    (/\ scan.kind \in {"rewritten", "null"}
     /\ ShapedUses(scan.items, "model") # {}
     /\ ShapedUses(scan.items, "selectedModel") # {}
     /\ \A m \in ShapedUses(scan.items, "model"),
           q \in ShapedUses(scan.items, "selectedModel") : q < m)
    => /\ scan.kind = "rewritten"
       /\ \E m \in ShapedUses(scan.items, "model"),
             q \in ShapedUses(scan.items, "selectedModel") : {m, q} \subseteq scan.replaced

\* Piece t carrying version v directly follows piece `before` somewhere in
\* the text.
DirectlyAfter(text, before, t, v) ==
    \E i \in 1..(Len(text) - 1) : text[i].t = before /\ text[i + 1] = Piece(t, v)

AllFound(fileContents) ==
    /\ FirstMatch(fileContents, "version") # 0
    /\ FirstMatch(fileContents, "session") # 0
    /\ FirstMatch(fileContents, "chalk") # 0

\* C28: when both anchor patterns and the chalk variable are found, the text
\* writeVersionOutput returns holds both edits: the version text extended
\* with the afterburner version, and the new status element directly after
\* the session-id element.
C28_VersionOutputHoldsBothEdits ==
    (version.kind = "returned" /\ AllFound(version.fileContents))
    => /\ version.result.kind = "text"
       /\ DirectlyAfter(version.result.text, "version", "afterburner",
                        version.afterburnerVersion)
       /\ DirectlyAfter(version.result.text, "session", "status",
                        version.afterburnerVersion)

\* The part of C28 about the status element alone.
C28_StatusElementInserted ==
    (version.kind = "returned" /\ AllFound(version.fileContents))
    => /\ version.result.kind = "text"
       /\ DirectlyAfter(version.result.text, "session", "status",
                        version.afterburnerVersion)
       /\ version.result.text[FirstMatch(version.fileContents, "session") + 1].t = "status"

\* The pieces of the first anchor match of file: none when nothing matches.
FirstAnchorRange(file) ==
    {k \in 1..Len(file) :
        \E i \in 1..k :
            /\ MatchesAt(file, i)
            /\ \A h \in 1..(i - 1) : ~MatchesAt(file, h)
            /\ k <= RunEnd(file, i + 1) + 2}

\* C29: writeWelcomeMessage returns null exactly when the anchor pattern is
\* absent; otherwise the result is the input with only the range of the
\* "Github Copilot" literal inside the first anchor match replaced by the
\* quoted custom text: the text before and after that range is the input's,
\* later occurrences are untouched; the input is what it was.
C29_WelcomeMessageReplacesOneRange ==
    welcome.kind = "returned"
    => LET old == welcome.oldFile
           range == FirstAnchorRange(old)
       IN  /\ (welcome.result.kind = "null") <=> (range = {})
           /\ range # {} =>
                /\ welcome.result.kind = "text"
                /\ Len(welcome.result.text) = Len(old)
                /\ \E k \in range :
                     /\ old[k].t = "copilot"
                     /\ welcome.result.text[k] = Quoted(welcome.customText)
                     /\ \A h \in 1..Len(old) :
                            h # k => welcome.result.text[h] = old[h]

\* A file with two anchor matches and a further literal has been rewritten.
C29_Witness ==
    /\ welcome.kind = "returned"
    /\ welcome.result.kind = "text"
    /\ welcome.customText = "Afterburner"
    /\ Cardinality({i \in 1..Len(welcome.oldFile) : MatchesAt(welcome.oldFile, i)}) = 2
    /\ \E k \in 1..Len(welcome.oldFile) :
          welcome.oldFile[k].t = "copilot" /\ k \notin FirstAnchorRange(welcome.oldFile)

BannerRunning == banner.kind \in {"mounted", "unmounted"}

\* What holds of the animation in every state.
BannerInvariant ==
    BannerRunning =>
        /\ banner.currentFrame = banner.firings
        /\ banner.currentFrame \in 0..banner.length
        /\ banner.currentFrame = banner.length => ~banner.timer
        /\ banner.rendered \in -1..(banner.length - 1)
        /\ banner.rendered = -1 => banner.currentFrame = 0 /\ ~banner.timer

\* What holds of every step of the animation.
BannerStep ==
    BannerRunning =>
        /\ banner'.currentFrame \in {banner.currentFrame, banner.currentFrame + 1}
        /\ banner'.currentFrame = banner.currentFrame + 1
              <=> banner'.firings = banner.firings + 1
        /\ banner.isComplete => banner'.isComplete
        /\ banner'.isComplete => banner'.currentFrame = banner.length
        /\ (banner'.timer /\ ~banner.timer) => banner.currentFrame < banner.length
        /\ (banner.stale /\ ~banner'.stale /\ banner'.kind = "mounted")
              => banner'.rendered \in 0..(banner.length - 1)

====
